---- MODULE Spec2Model ----
(***************************************************************************)
(* Hybrid retrieval and reranking pipeline of ancre-ai:                    *)
(*   app/core/retrieval/{hybrid,keyword_retriever,vector_retriever,        *)
(*   orchestrator,reranker_factory,reranker_hf,reranker_mistral}.py,       *)
(*   app/core/vector_store.py                                              *)
(*                                                                         *)
(* Three specifications share the module:                                  *)
(*   Spec         one retrieve_context call, from the embedding of the     *)
(*                query to its return or raise;                            *)
(*   SpecRRF      rrf_merge as a pure function of two ranked lists;        *)
(*   SpecTsquery  _build_or_tsquery as a pure function of a query string.  *)
(*                                                                         *)
(* Scores.  rrf_merge adds the floats 1.0/(k+rank).  The model keeps them  *)
(* exact: a fused score is an integer number of 1/ScoreUnit(k), with       *)
(* ScoreUnit(k) a common multiple of every k+rank that can occur.          *)
(* Optional floats (fused_score, rerank_score) are records                 *)
(* [kind, val] with kind "None", "num" or "-inf".                          *)
(***************************************************************************)
EXTENDS Integers, Sequences, FiniteSets, TLC

VARIABLES
    settings,        \* app.config settings read by the pipeline
    tenant_id,       \* arguments of retrieve_context
    collection_ids,
    query,
    pc,              \* position of retrieve_context
    kwTask,          \* the keyword_search task given to asyncio.gather
    vecTask,         \* the vector_search task given to asyncio.gather
    dbQueries,       \* statements executed on the Postgres session
    qdrantQueries,   \* query_points calls made on the Qdrant client
    gatherExc,       \* exception set on the gather future, or "none"
    merged,          \* rrf_merge(...) of orchestrator.py:69
    candidates,      \* merged[:rerank_max_candidates]; the rerankers mutate it
    rr,              \* the reranker call in progress
    calls,           \* number of rerank() calls and of HTTP requests so far
    result,          \* list returned by retrieve_context
    outcome,         \* terminal outcome of retrieve_context
    raised,          \* exception raised by retrieve_context, or "none"
    rrfIn,           \* SpecRRF: arguments of rrf_merge
    rrfOut,          \* SpecRRF: its return value
    rrfAgain,        \* SpecRRF: return value of a second call on the same lists
    vecIn,           \* SpecVector: arguments of vector_search and the index
    vecOut,          \* SpecVector: its return value
    chunkIn,         \* SpecChunkText: the Chunker and the text given to chunk_text
    chunkOut,        \* SpecChunkText: its return value
    docIn,           \* SpecChunkDocument: the Chunker and the parsed document
    docOut,          \* SpecChunkDocument: return value of chunk_document
    tsQuery,         \* SpecTsquery: argument of _build_or_tsquery
    tsExpr,          \* SpecTsquery: its return value
    hfIn,            \* SpecHF: settings and arguments of HFEndpointReranker.rerank
    hfRun,            \* SpecHF: the call in progress and what it sent and received
    mistralIn,       \* SpecMistral: settings and arguments of MistralReranker.rerank
    mistralRun,       \* SpecMistral: the call in progress and what it received
    embIn,           \* SpecEmbedding: the concurrent embed_text / embed_texts calls
    embCalls,        \* SpecEmbedding: where each call stands and its locals
    embCache,        \* SpecEmbedding: EmbeddingService._cache
    embWrites,       \* SpecEmbedding: assignments made to each key of _cache
    embUpstream      \* SpecEmbedding: inputs of the embeddings.create calls so far

vars == <<settings, tenant_id, collection_ids, query, pc, kwTask, vecTask,
          dbQueries, qdrantQueries, gatherExc, merged, candidates, rr, calls,
          result, outcome, raised, rrfIn, rrfOut, rrfAgain, vecIn, vecOut,
          chunkIn, chunkOut, docIn, docOut, tsQuery, tsExpr,
          hfIn, hfRun,
          mistralIn, mistralRun,
          embIn, embCalls, embCache, embWrites, embUpstream>>

\* the variables of the functions that run on their own
unitVars == <<rrfIn, rrfOut, rrfAgain, vecIn, vecOut, chunkIn, chunkOut,
              docIn, docOut, tsQuery, tsExpr,
              hfIn, hfRun,
              mistralIn, mistralRun,
              embIn, embCalls, embCache, embWrites, embUpstream>>

embeddingVars == <<embIn, embCalls, embCache, embWrites, embUpstream>>

mistralVars == <<mistralIn, mistralRun>>

hfVars == <<hfIn, hfRun>>

vectorVars == <<vecIn, vecOut>>

chunkerVars == <<chunkIn, chunkOut, docIn, docOut>>

pipelineVars == <<settings, tenant_id, collection_ids, query, pc, kwTask, vecTask,
                  dbQueries, qdrantQueries, gatherExc, merged, candidates, rr, calls,
                  result, outcome, raised>>

\* ------------------------------------------------------------------ bounds
\* longest result list a retriever returns (hybrid_keyword_topk / _vector_topk)
MaxListLen == 2
\* largest chunk_size of a Chunker
MaxChunkSize == 3
\* most tokens in one sentence (more than MaxChunkSize: long sentences exist)
MaxSentTokens == 5
\* most sentences in the text given to chunk_text
MaxSentences == 4
\* most pages in a parsed document
MaxPages == 3
\* longest query string given to _build_or_tsquery
MaxQueryLen == 3
\* largest score a reranker response carries (scores are 1..MaxScore)
MaxScore == 1
\* largest rerank_retry_max
MaxRetry == 1
\* largest rerank_max_candidates / rerank_final_topn
MaxTopn == 2
\* largest number of embed_text / embed_texts calls in flight together
MaxCalls == 2
\* longest list given to embed_texts
MaxTexts == 2

\* ------------------------------------------------------------ small helpers
Min(a, b) == IF a <= b THEN a ELSE b

\* Python s[:n] for n >= 0
Prefix(s, n) == SubSeq(s, 1, Min(n, Len(s)))

Range(s) == {s[i] : i \in 1..Len(s)}

\* all sequences over S of length <= n
SeqsUpTo(S, n) == UNION {[1..m -> S] : m \in 0..n}

\* all duplicate-free sequences over S of length <= n
InjSeqsUpTo(S, n) == {s \in SeqsUpTo(S, n) : \A i, j \in 1..Len(s) : i # j => s[i] # s[j]}

\* Optional float values
NoneVal == [kind |-> "None", val |-> 0]
NegInf == [kind |-> "-inf", val |-> 0]
Num(v) == [kind |-> "num", val |-> v]

\* ------------------------------------------------------------ RetrievedChunk
\* app/services/retrieval.py: the fields the pipeline reads or writes.
\* origin is not a field of the dataclass: it names the retriever that built
\* the object, so that two objects with the same chunk_id stay distinguishable.
RetrievedChunk(cid, fname, origin) ==
    [chunk_id |-> cid, document_filename |-> fname, origin |-> origin,
     fused_score |-> NoneVal, rerank_score |-> NoneVal]

ChunkIds(s) == [i \in 1..Len(s) |-> s[i].chunk_id]

\* ------------------------------------------------------------------- RRF
RECURSIVE ProductTo(_, _)
ProductTo(k, n) == IF n = 0 THEN 1 ELSE (k + n) * ProductTo(k, n - 1)

\* length of the lists of the documented fusion example
ExampleListLen == 3

\* common denominator of the contributions 1/(k+1) .. 1/(k+n), n the longest
\* list
ScoreUnit(k) ==
    ProductTo(k, IF MaxListLen > ExampleListLen THEN MaxListLen ELSE ExampleListLen)

\* 1.0 / (k + rank), in units of 1/ScoreUnit(k); rank is 1-based
\* (enumerate(..., start=1))
RankContributionFromZero(k, rank) == ScoreUnit(k) \div (k + rank - 1)

RankContribution(k, rank) == ScoreUnit(k) \div (k + rank)

RECURSIVE RRFLoopOverwrite(_, _, _, _, _)
RRFLoopOverwrite(list, i, k, preferFilename, acc) ==
    IF i > Len(list) THEN acc
    ELSE
      LET chunk == list[i]
          cid == chunk.chunk_id
          seen == cid \in DOMAIN acc.score_map
          scoreMap == [c \in (DOMAIN acc.score_map) \cup {cid} |->
                          IF c = cid THEN RankContribution(k, i) ELSE acc.score_map[c]]
          chunkMap == [c \in (DOMAIN acc.chunk_map) \cup {cid} |->
                          IF c = cid /\ ~seen THEN chunk ELSE acc.chunk_map[c]]
          order == IF seen THEN acc.order ELSE Append(acc.order, cid)
      IN RRFLoopOverwrite(list, i + 1, k, preferFilename,
                          [order |-> order, chunk_map |-> chunkMap, score_map |-> scoreMap])

\* One loop of rrf_merge over one list, starting at position i.
\* acc = [order, chunk_map, score_map]: order is the insertion order of the
\* keys of score_map (a Python dict iterates in insertion order).
\* preferFilename is TRUE for the vector loop only (hybrid.py:33-35).
RECURSIVE RRFLoop(_, _, _, _, _)
RRFLoop(list, i, k, preferFilename, acc) ==
    IF i > Len(list) THEN acc
    ELSE
      LET chunk == list[i]
          cid == chunk.chunk_id
          seen == cid \in DOMAIN acc.score_map
          old == IF seen THEN acc.score_map[cid] ELSE 0
          newScore == old + RankContribution(k, i)
          scoreMap == [c \in (DOMAIN acc.score_map) \cup {cid} |->
                          IF c = cid THEN newScore ELSE acc.score_map[c]]
          replace == /\ seen
                     /\ preferFilename
                     /\ acc.chunk_map[cid].document_filename = ""
                     /\ chunk.document_filename # ""
          chunkMap == [c \in (DOMAIN acc.chunk_map) \cup {cid} |->
                          IF c = cid
                          THEN (IF ~seen \/ replace THEN chunk ELSE acc.chunk_map[cid])
                          ELSE acc.chunk_map[c]]
          order == IF seen THEN acc.order ELSE Append(acc.order, cid)
      IN RRFLoop(list, i + 1, k, preferFilename,
                 [order |-> order, chunk_map |-> chunkMap, score_map |-> scoreMap])

\* sorted(ids, key=score, reverse=True): Python's sort is stable, and with
\* reverse=True equal keys keep their original relative order.
RECURSIVE InsertDescTiesFirst(_, _, _)
InsertDescTiesFirst(sorted, x, key) ==
    IF sorted = << >> THEN <<x>>
    ELSE IF key[Head(sorted)] > key[x]
         THEN <<Head(sorted)>> \o InsertDescTiesFirst(Tail(sorted), x, key)
         ELSE <<x>> \o sorted

RECURSIVE InsertDesc(_, _, _)
InsertDesc(sorted, x, key) ==
    IF sorted = << >> THEN <<x>>
    ELSE IF key[Head(sorted)] >= key[x]
         THEN <<Head(sorted)>> \o InsertDesc(Tail(sorted), x, key)
         ELSE <<x>> \o sorted

RECURSIVE SortedDesc(_, _)
SortedDesc(s, key) ==
    IF s = << >> THEN << >>
    ELSE InsertDesc(SortedDesc(SubSeq(s, 1, Len(s) - 1), key), s[Len(s)], key)

rrf_mergeUnsorted(keyword_results, vector_results, k) ==
    LET empty == [order |-> << >>, chunk_map |-> << >>, score_map |-> << >>]
        afterKw == RRFLoop(keyword_results, 1, k, FALSE, empty)
        afterVec == RRFLoop(vector_results, 1, k, TRUE, afterKw)
    IN [i \in 1..Len(afterVec.order) |->
           [afterVec.chunk_map[afterVec.order[i]] EXCEPT
               !.fused_score = Num(afterVec.score_map[afterVec.order[i]])]]

rrf_mergeKeywordRecordKept(keyword_results, vector_results, k) ==
    LET empty == [order |-> << >>, chunk_map |-> << >>, score_map |-> << >>]
        afterKw == RRFLoop(keyword_results, 1, k, FALSE, empty)
        afterVec == RRFLoop(vector_results, 1, k, FALSE, afterKw)
        sorted_ids == SortedDesc(afterVec.order, afterVec.score_map)
    IN [i \in 1..Len(sorted_ids) |->
           [afterVec.chunk_map[sorted_ids[i]] EXCEPT
               !.fused_score = Num(afterVec.score_map[sorted_ids[i]])]]

rrf_merge(keyword_results, vector_results, k) ==
    LET empty == [order |-> << >>, chunk_map |-> << >>, score_map |-> << >>]
        afterKw == RRFLoop(keyword_results, 1, k, FALSE, empty)
        afterVec == RRFLoop(vector_results, 1, k, TRUE, afterKw)
        sorted_ids == SortedDesc(afterVec.order, afterVec.score_map)
    IN [i \in 1..Len(sorted_ids) |->
           [afterVec.chunk_map[sorted_ids[i]] EXCEPT
               !.fused_score = Num(afterVec.score_map[sorted_ids[i]])]]

\* --------------------------------------------------------- _build_or_tsquery
\* Characters are one-character strings.  The alphabet has one character of
\* each class the regular expressions tell apart.
QueryAlphabet == {"a", "B", "7", "_", "'", " ", "|"}

\* str.lower()
Lower(c) == IF c = "B" THEN "b" ELSE c

LowerStr(s) == [i \in 1..Len(s) |-> Lower(s[i])]

\* Python \w on str: alphanumeric characters and the underscore
IsWordChar(c) == c \in {"a", "b", "B", "7", "_"}

\* str.isspace()
IsSpace(c) == c = " "

\* re.findall(r"\w+", s): the maximal runs of word characters, left to right
RECURSIVE FindallWords(_, _, _)
FindallWords(s, i, cur) ==
    IF i > Len(s)
    THEN (IF cur = << >> THEN << >> ELSE <<cur>>)
    ELSE IF IsWordChar(s[i])
         THEN FindallWords(s, i + 1, Append(cur, s[i]))
         ELSE (IF cur = << >> THEN << >> ELSE <<cur>>) \o FindallWords(s, i + 1, << >>)

\* re.match(r"^[\w]+$", w)
MatchesWordOnly(w) == Len(w) > 0 /\ \A i \in 1..Len(w) : IsWordChar(w[i])

RECURSIVE SelectWords(_)
SelectWords(ws) ==
    IF ws = << >> THEN << >>
    ELSE (IF MatchesWordOnly(Head(ws)) THEN <<Head(ws)>> ELSE << >>)
         \o SelectWords(Tail(ws))

OrSeparator == <<" ", "|", " ">>

\* " | ".join(words)
RECURSIVE JoinOr(_)
JoinOr(ws) ==
    IF ws = << >> THEN << >>
    ELSE IF Len(ws) = 1 THEN ws[1]
         ELSE ws[1] \o OrSeparator \o JoinOr(Tail(ws))

\* safe_words of _build_or_tsquery
SafeWords(q) == SelectWords(FindallWords(LowerStr(q), 1, << >>))

\* keyword_retriever.py:15-28; "" is the empty sequence
BuildOrTsquery(q) == JoinOr(SafeWords(q))

\* `not query.strip()` (keyword_retriever.py:45)
IsBlank(q) == \A i \in 1..Len(q) : IsSpace(q[i])

\* ------------------------------------------------------- the indexed chunks
\* Rows of the chunks table / points of the Qdrant collection.  Both indexes
\* hold the same chunks; filename is the document_filename of the Qdrant
\* payload ("" when the payload has none).
Tenants == {"t1", "t2"}

Collections == {"colA", "colB"}

StoreChunks ==
    { [id |-> "c1", tenant |-> "t1", collection |-> "colA", filename |-> "f.pdf"],
      [id |-> "c2", tenant |-> "t1", collection |-> "colB", filename |-> ""],
      [id |-> "c3", tenant |-> "t2", collection |-> "colA", filename |-> "g.pdf"] }

TenantOfChunk(cid) == (CHOOSE r \in StoreChunks : r.id = cid).tenant

\* collection_ids: list[UUID] | None
NoCollections == [none |-> TRUE, ids |-> {}]

CollectionList(ids) == [none |-> FALSE, ids |-> ids]

\* ---------------------------------------------------------- keyword_search
\* The statement keyword_search executes (keyword_retriever.py:57-91):
\* the WHERE clause as data.  tenant is the value bound to :tenant_id,
\* anyOf the value bound to :collection_ids when the ANY(...) clause is there.
KeywordStatementNoTenant(tenant, collections, expr, topk) ==
    [tenantFilter |-> collections.none, tenant |-> tenant,
     collectionFilter |-> ~collections.none, anyOf |-> collections.ids,
     tsquery |-> expr, limit |-> topk]

KeywordStatement(tenant, collections, expr, topk) ==
    [tenantFilter |-> TRUE, tenant |-> tenant,
     collectionFilter |-> ~collections.none, anyOf |-> collections.ids,
     tsquery |-> expr, limit |-> topk]

\* rows of the chunks table that pass the WHERE clause, text match aside
KeywordRows(stmt) ==
    {r \in StoreChunks :
        /\ stmt.tenantFilter => r.tenant = stmt.tenant
        /\ stmt.collectionFilter => r.collection \in stmt.anyOf}

\* What Postgres can answer: some of these rows (those the tsquery matches),
\* in ts_rank_cd order, at most LIMIT of them.
KeywordAnswers(stmt) == InjSeqsUpTo(KeywordRows(stmt), stmt.limit)

\* keyword_retriever.py:94-104: rows -> RetrievedChunk
KeywordChunks(rows) ==
    [i \in 1..Len(rows) |-> RetrievedChunk(rows[i].id, "", "keyword")]

\* ------------------------------------------------------- VectorStore.search
\* vector_store.py:147-174: the filter given to query_points
VectorFilter(tenant, collections, topk) ==
    [tenantFilter |-> TRUE, tenant |-> tenant,
     shouldFilter |-> ~collections.none, should |-> collections.ids,
     limit |-> topk, score_threshold |-> 0]

\* Points that pass the filter.  An empty should-list is Qdrant's business:
\* emptyShouldMatchesAll says which way the engine reads it.
VectorPoints(flt, emptyShouldMatchesAll) ==
    {r \in StoreChunks :
        /\ flt.tenantFilter => r.tenant = flt.tenant
        /\ flt.shouldFilter =>
              \/ r.collection \in flt.should
              \/ flt.should = {} /\ emptyShouldMatchesAll}

VectorAnswers(flt, emptyShouldMatchesAll) ==
    InjSeqsUpTo(VectorPoints(flt, emptyShouldMatchesAll), flt.limit)

\* vector_retriever.py:30-41: points -> RetrievedChunk
VectorChunks(points) ==
    [i \in 1..Len(points) |-> RetrievedChunk(points[i].id, points[i].filename, "vector")]

\* Cosine similarity of a stored vector to the query vector, by sign
SimValues == {0 - 1, 0, 1}

\* Points query_points can return for a filter that carries a score
\* threshold: a point scoring under the threshold is left out; one scoring
\* exactly the threshold is left out or not (thresholdStrict), as the engine
\* compares.
QdrantPoints(flt, similarity, thresholdStrict, emptyShouldMatchesAll) ==
    {r \in VectorPoints(flt, emptyShouldMatchesAll) :
        \/ similarity[r.id] > flt.score_threshold
        \/ ~thresholdStrict /\ similarity[r.id] = flt.score_threshold}

\* query_points: the limit best of these points, best first
QdrantAnswers(flt, similarity, thresholdStrict, emptyShouldMatchesAll) ==
    LET pts == QdrantPoints(flt, similarity, thresholdStrict, emptyShouldMatchesAll)
    IN {s \in InjSeqsUpTo(pts, flt.limit) :
          /\ Len(s) = Min(flt.limit, Cardinality(pts))
          /\ \A i \in 1..(Len(s) - 1) : similarity[s[i].id] >= similarity[s[i + 1].id]
          /\ \A r \in pts \ Range(s) :
                \A i \in 1..Len(s) : similarity[r.id] <= similarity[s[i].id]}

\* --------------------------------------------------------- reranker_factory
KnownProviders == {"hf_endpoint", "mistral"}

\* get_reranker(): the provider name, or "None"
get_reranker(cfg) ==
    IF ~cfg.rerank_enabled THEN "None"
    ELSE IF cfg.rerank_provider \in KnownProviders THEN cfg.rerank_provider
    ELSE "None"

\* get_fallback_reranker(): the provider name, or "None"
get_fallback_reranker(cfg) ==
    IF cfg.rerank_fallback_provider = "" \/ cfg.rerank_fallback_provider = "none"
    THEN "None"
    ELSE IF cfg.rerank_fallback_provider \in KnownProviders
         THEN cfg.rerank_fallback_provider
         ELSE "None"

\* ------------------------------------------------------------ rerank sorting
\* key=lambda c: c.rerank_score or 0   (None and 0.0 are falsy; -inf is not)
RerankKey(c) ==
    IF c.rerank_score.kind = "num" THEN c.rerank_score.val
    ELSE IF c.rerank_score.kind = "None" THEN 0
    ELSE 0 - (MaxScore + 1)

\* sorted(candidates, key=..., reverse=True)
SortByRerank(cands) == SortedDesc(cands, [c \in Range(cands) |-> RerankKey(c)])

\* --------------------------------------------------- HFEndpointReranker
\* One element of the JSON list the endpoint answers.  kind tells how the
\* element is malformed, if it is:
\*   "ok"        {"index": index, "score": score}
\*   "noindex"   {"score": score}                 (index -> None, skipped)
\*   "nullscore" {"index": index, "score": null}  (float(None): TypeError)
\*   "strscore"  {"index": index, "score": "x"}   (float("x"): ValueError)
\*   "nonobject" a string, a number, a list       (.get: AttributeError)
HFItemKinds == {"ok", "noindex", "nullscore", "strscore", "nonobject"}

HFItems(n) ==
    {[kind |-> "ok", index |-> i, score |-> s] : i \in 0..n, s \in 1..MaxScore}
    \cup {[kind |-> kd, index |-> 0, score |-> 0] : kd \in HFItemKinds \ {"ok"}}

\* reranker_hf.py:68-72, one turn of the loop "for item in data".
\* Returns the candidates as mutated and the exception the turn raised.
HFApplyItem(item, cands) ==
    CASE item.kind = "nonobject" -> [cands |-> cands, exc |-> "AttributeError"]
      [] item.kind = "nullscore" -> [cands |-> cands, exc |-> "TypeError"]
      [] item.kind = "strscore"  -> [cands |-> cands, exc |-> "ValueError"]
      [] item.kind = "noindex"   -> [cands |-> cands, exc |-> "none"]
      [] OTHER ->
           IF 0 <= item.index /\ item.index < Len(cands)
           THEN [cands |-> [cands EXCEPT ![item.index + 1].rerank_score = Num(item.score)],
                 exc |-> "none"]
           ELSE [cands |-> cands, exc |-> "none"]

HFCaughtWithProviderError(exc) ==
    exc \in {"HTTPError", "TimeoutException", "KeyError", "ValueError",
             "RerankProviderError"}

\* except (httpx.HTTPError, httpx.TimeoutException, KeyError, ValueError)
HFCaught(exc) == exc \in {"HTTPError", "TimeoutException", "KeyError", "ValueError"}

\* the items of a list the endpoint answers to a rerank call made on its
\* own: two scores at least, so that the order by score shows
HFListItems(n) ==
    {[kind |-> "ok", index |-> i, score |-> s] : i \in 0..n, s \in 1..(MaxScore + 1)}
    \cup {[kind |-> kd, index |-> 0, score |-> 0] : kd \in HFItemKinds \ {"ok"}}

RECURSIVE HFItemLoopByPosition(_, _, _)
HFItemLoopByPosition(data, p, cands) ==
    IF p > Len(data) THEN [cands |-> cands, exc |-> "none"]
    ELSE LET r == HFApplyItem([data[p] EXCEPT !.index = p - 1], cands) IN
         IF r.exc # "none" THEN r ELSE HFItemLoopByPosition(data, p + 1, r.cands)

\* reranker_hf.py:68-72, the loop "for item in data" from item p on: it
\* stops at the first exception, with the scores written before it kept
RECURSIVE HFItemLoop(_, _, _)
HFItemLoop(data, p, cands) ==
    IF p > Len(data) THEN [cands |-> cands, exc |-> "none"]
    ELSE LET r == HFApplyItem(data[p], cands) IN
         IF r.exc # "none" THEN r ELSE HFItemLoop(data, p + 1, r.cands)

\* ------------------------------------------------------- MistralReranker
\* One element of the "ranking" list of the completion:
\*   "ok"        {"chunk_id": chunk_id, "score": score}
\*   "nullscore" {"chunk_id": chunk_id, "score": null}  (TypeError)
\*   "strscore"  {"chunk_id": chunk_id, "score": "x"}   (ValueError)
\*   "nonobject" a string, a number, a list             (AttributeError)
MistralItemKinds == {"ok", "nullscore", "strscore", "nonobject"}

MistralItems(ids) ==
    {[kind |-> "ok", chunk_id |-> c, score |-> s] : c \in ids, s \in 1..MaxScore}
    \cup {[kind |-> kd, chunk_id |-> "", score |-> 0] : kd \in MistralItemKinds \ {"ok"}}

\* reranker_mistral.py:94-98, one turn of the loop "for item in ranking".
\* Two more kinds of element, which a call made on its own is given:
\*   "nochunkid" {"score": score}        (item.get("chunk_id", "") is "")
\*   "noscore"   {"chunk_id": chunk_id}  (item.get("score", 0.0) is 0.0)
MistralScoreItem(item, score_map) ==
    CASE item.kind = "nonobject" -> [score_map |-> score_map, exc |-> "AttributeError"]
      [] item.kind = "nullscore" -> [score_map |-> score_map, exc |-> "TypeError"]
      [] item.kind = "strscore"  -> [score_map |-> score_map, exc |-> "ValueError"]
      [] OTHER ->
           LET cid == IF item.kind = "nochunkid" THEN "" ELSE item.chunk_id
               score == IF item.kind = "noscore" THEN 0 ELSE item.score
           IN [score_map |-> [c \in (DOMAIN score_map) \cup {cid} |->
                                 IF c = cid THEN score ELSE score_map[c]],
               exc |-> "none"]

\* reranker_mistral.py:94-98, the loop "for item in ranking" from item p on
RECURSIVE MistralItemLoop(_, _, _)
MistralItemLoop(ranking, p, score_map) ==
    IF p > Len(ranking) THEN [score_map |-> score_map, exc |-> "none"]
    ELSE LET r == MistralScoreItem(ranking[p], score_map) IN
         IF r.exc # "none" THEN r ELSE MistralItemLoop(ranking, p + 1, r.score_map)

\* the elements of a ranking given to a call made on its own
MistralRankingItems(ids) ==
    {[kind |-> "ok", chunk_id |-> c, score |-> s] : c \in ids, s \in 1..(MaxScore + 1)}
    \cup {[kind |-> "noscore", chunk_id |-> c, score |-> 0] : c \in ids}
    \cup {[kind |-> "nochunkid", chunk_id |-> "", score |-> 1]}
    \cup {[kind |-> kd, chunk_id |-> "", score |-> 0] : kd \in MistralItemKinds \ {"ok"}}

MistralAssignNone(cands, score_map) ==
    [i \in 1..Len(cands) |->
        [cands[i] EXCEPT !.rerank_score =
            IF cands[i].chunk_id \in DOMAIN score_map
            THEN Num(score_map[cands[i].chunk_id])
            ELSE NoneVal]]

\* reranker_mistral.py:101-102: score_map.get(c.chunk_id, -float("inf"))
MistralAssign(cands, score_map) ==
    [i \in 1..Len(cands) |->
        [cands[i] EXCEPT !.rerank_score =
            IF cands[i].chunk_id \in DOMAIN score_map
            THEN Num(score_map[cands[i].chunk_id])
            ELSE NegInf]]

\* ------------------------------------------------------------------ Chunker
\* A text is given by what chunk_text reads of it: whether it is empty or
\* whitespace only (chunking.py:64), and the token count of each sentence
\* _split_into_sentences makes of it (count_tokens, at least 1 for a
\* sentence, which is never empty).  A sentence is named by its position.
EmptyText == [kind |-> "empty", sentences |-> << >>]

WhitespaceText == [kind |-> "whitespace", sentences |-> << >>]

Text(sentences) == [kind |-> "text", sentences |-> sentences]

\* TextChunk.  sentences: the positions of the sentences joined into content;
\* for a chunk cut out of a long sentence, the one position and the token
\* window tokens[first : last] decoded into content.
TextChunk(kind, sentences, first, last, token_count, chunk_index, page_number) ==
    [kind |-> kind, sentences |-> sentences, first |-> first, last |-> last,
     token_count |-> token_count, chunk_index |-> chunk_index,
     page_number |-> page_number]

\* chunking.py:84-94, 122-133, 156-166: the window joined into one chunk
WindowChunk(st, page_number) ==
    TextChunk("sentences", st.current_chunk, 0, 0, st.current_tokens,
              st.chunk_index, page_number)

\* chunking.py:137-145: walk the flushed window backwards and keep sentences
\* while they fit in chunk_overlap; stop at the first that does not
RECURSIVE OverlapLoop(_, _, _, _, _)
OverlapLoop(current_chunk, p, tokens, chunk_overlap, acc) ==
    IF p = 0 THEN acc
    ELSE LET s_tokens == tokens[current_chunk[p]] IN
         IF acc.overlap_tokens + s_tokens <= chunk_overlap
         THEN OverlapLoop(current_chunk, p - 1, tokens, chunk_overlap,
                 [overlap_sentences |-> <<current_chunk[p]>> \o acc.overlap_sentences,
                  overlap_tokens |-> acc.overlap_tokens + s_tokens])
         ELSE acc

OverlapSentencesWholeWindow(current_chunk, tokens, chunk_overlap) ==
    OverlapLoop(current_chunk, Len(current_chunk), tokens, MaxSentTokens * Len(current_chunk),
                [overlap_sentences |-> << >>, overlap_tokens |-> 0])

OverlapSentences(current_chunk, tokens, chunk_overlap) ==
    OverlapLoop(current_chunk, Len(current_chunk), tokens, chunk_overlap,
                [overlap_sentences |-> << >>, overlap_tokens |-> 0])

\* chunking.py:100-115: for i in range(0, len(tokens), step), from i on
RECURSIVE HardSplitLoop(_, _, _, _, _, _, _)
HardSplitLoop(j, n, i, chunk_size, step, chunk_index, page_number) ==
    IF i >= n THEN << >>
    ELSE <<TextChunk("hard", <<j>>, i, Min(i + chunk_size, n),
                     Min(i + chunk_size, n) - i, chunk_index, page_number)>>
         \o HardSplitLoop(j, n, i + step, chunk_size, step, chunk_index + 1, page_number)

HardSplitStrideChunkSize(j, n, chunk_size, chunk_overlap, chunk_index, page_number) ==
    HardSplitLoop(j, n, 0, chunk_size, chunk_size, chunk_index, page_number)

HardSplit(j, n, chunk_size, chunk_overlap, chunk_index, page_number) ==
    HardSplitLoop(j, n, 0, chunk_size, chunk_size - chunk_overlap, chunk_index,
                  page_number)

\* chunking.py:77-166: the loop "for sentence in sentences" from sentence j
\* on, then the last chunk.  st holds chunks, current_chunk, current_tokens
\* and chunk_index.
RECURSIVE ChunkLoop(_, _, _, _, _, _)
ChunkLoop(tokens, j, chunk_size, chunk_overlap, page_number, st) ==
    IF j > Len(tokens)
    THEN IF st.current_chunk # << >>
         THEN Append(st.chunks, WindowChunk(st, page_number))
         ELSE st.chunks
    ELSE
      LET sentence_tokens == tokens[j] IN
      IF sentence_tokens > chunk_size
      THEN LET flushed == IF st.current_chunk # << >>
                          THEN [chunks |-> Append(st.chunks, WindowChunk(st, page_number)),
                                current_chunk |-> << >>,
                                current_tokens |-> 0,
                                chunk_index |-> st.chunk_index + 1]
                          ELSE st
               windows == HardSplit(j, sentence_tokens, chunk_size, chunk_overlap,
                                    flushed.chunk_index, page_number)
           IN ChunkLoop(tokens, j + 1, chunk_size, chunk_overlap, page_number,
                        [flushed EXCEPT !.chunks = @ \o windows,
                                        !.chunk_index = @ + Len(windows)])
      ELSE LET overflow == st.current_tokens + sentence_tokens > chunk_size
               kept == OverlapSentences(st.current_chunk, tokens, chunk_overlap)
               seeded == IF overflow /\ st.current_chunk # << >>
                         THEN [chunks |-> Append(st.chunks, WindowChunk(st, page_number)),
                               current_chunk |-> kept.overlap_sentences,
                               current_tokens |-> kept.overlap_tokens,
                               chunk_index |-> st.chunk_index + 1]
                         ELSE st
           IN ChunkLoop(tokens, j + 1, chunk_size, chunk_overlap, page_number,
                        [seeded EXCEPT !.current_chunk = Append(@, j),
                                       !.current_tokens = @ + sentence_tokens])

\* Chunker.chunk_text
chunk_text(chunker, text, page_number) ==
    IF text.kind # "text" THEN << >>
    ELSE IF text.sentences = << >> THEN << >>
    ELSE ChunkLoop(text.sentences, 1, chunker.chunk_size, chunker.chunk_overlap,
                   page_number,
                   [chunks |-> << >>, current_chunk |-> << >>, current_tokens |-> 0,
                    chunk_index |-> 0])

\* chunking.py:184-187: the chunks of one page take the next global indices
Reindex(page_chunks, global_index) ==
    [i \in 1..Len(page_chunks) |->
        [page_chunks[i] EXCEPT !.chunk_index = global_index + i - 1]]

\* chunking.py:175-187: "for page in doc.pages" from page p on
RECURSIVE PageLoopKeepIndex(_, _, _, _, _)
PageLoopKeepIndex(chunker, pages, p, global_index, all_chunks) ==
    IF p > Len(pages) THEN all_chunks
    ELSE LET page_chunks == chunk_text(chunker, pages[p].content, pages[p].page_number)
         IN PageLoopKeepIndex(chunker, pages, p + 1, global_index + Len(page_chunks),
                              all_chunks \o page_chunks)

RECURSIVE PageLoop(_, _, _, _, _)
PageLoop(chunker, pages, p, global_index, all_chunks) ==
    IF p > Len(pages) THEN all_chunks
    ELSE LET page_chunks == chunk_text(chunker, pages[p].content, pages[p].page_number)
         IN PageLoop(chunker, pages, p + 1, global_index + Len(page_chunks),
                     all_chunks \o Reindex(page_chunks, global_index))

\* Chunker.chunk_document
chunk_document(chunker, doc) == PageLoop(chunker, doc.pages, 1, 0, << >>)

\* Chunker(chunk_size, chunk_overlap) with chunk_overlap < chunk_size
Chunkers ==
    {c \in [chunk_size : 1..MaxChunkSize, chunk_overlap : 0..MaxChunkSize] :
        c.chunk_overlap < c.chunk_size}

\* ---------------------------------------------------------------- settings
\* hybrid_rrf_k (app/config.py)
DefaultRRFK == 60

ProviderNames == {"hf_endpoint", "mistral", "cohere"}

FallbackNames == {"hf_endpoint", "mistral", "none", ""}

\* Settings the call can run under.  A setting that no reranker of the
\* configuration reads is held at one value.
SettingsSpace ==
    {cfg \in [rerank_enabled : BOOLEAN,
              rerank_provider : ProviderNames,
              rerank_fallback_provider : FallbackNames,
              hf_rerank_url : {"", "http://tei"},
              mistral_api_key : {"", "key"},
              rerank_retry_max : {0, MaxRetry},
              rerank_max_candidates : {1, MaxTopn},
              rerank_final_topn : {1, MaxTopn},
              hybrid_rrf_k : {DefaultRRFK},
              hybrid_keyword_topk : {MaxListLen},
              hybrid_vector_topk : {MaxListLen}] :
        LET used == IF ~cfg.rerank_enabled \/ cfg.rerank_provider \notin KnownProviders
                    THEN {}
                    ELSE {cfg.rerank_provider, cfg.rerank_fallback_provider}
        IN /\ ~cfg.rerank_enabled =>
                 cfg.rerank_provider = "hf_endpoint" /\ cfg.rerank_fallback_provider = "mistral"
           /\ cfg.rerank_provider \notin KnownProviders =>
                 cfg.rerank_fallback_provider = "mistral"
           /\ "hf_endpoint" \notin used =>
                 cfg.hf_rerank_url = "" /\ cfg.rerank_retry_max = 0
           /\ "mistral" \notin used => cfg.mistral_api_key = ""}

\* query strings given to retrieve_context
PipelineQueries == {<<"a">>, <<"'">>}

CollectionArgs == {NoCollections, CollectionList({}), CollectionList({"colA"})}

\* a search task: "none" until gather wraps the coroutine, then "created",
\* "running" (awaiting its backend), "done" or "failed"
IdleTask == [st |-> "none", result |-> << >>]

IdleReranker ==
    [who |-> "none", provider |-> "None", st |-> "idle", attempt |-> 0,
     ret |-> << >>, exc |-> "none", score_map |-> << >>]

InitPipeline ==
    /\ settings \in SettingsSpace
    /\ tenant_id \in Tenants
    /\ collection_ids \in CollectionArgs
    /\ query \in PipelineQueries
    /\ pc = "embed"
    /\ kwTask = IdleTask
    /\ vecTask = IdleTask
    /\ dbQueries = << >>
    /\ qdrantQueries = << >>
    /\ gatherExc = "none"
    /\ merged = << >>
    /\ candidates = << >>
    /\ rr = IdleReranker
    /\ calls = [primary |-> 0, fallback |-> 0, hf_http |-> 0, mistral_http |-> 0]
    /\ result = << >>
    /\ outcome = "running"
    /\ raised = "none"

IdleRRF == /\ rrfIn = [kw |-> << >>, vec |-> << >>, k |-> DefaultRRFK]
           /\ rrfOut = [done |-> FALSE, merged |-> << >>]
           /\ rrfAgain = [done |-> FALSE, merged |-> << >>]

IdleVector ==
    /\ vecIn = [tenant |-> "t1", collections |-> NoCollections, topk |-> 1,
                similarity |-> [c \in {r.id : r \in StoreChunks} |-> 0]]
    /\ vecOut = [done |-> FALSE, raised |-> FALSE, chunks |-> << >>, scores |-> << >>]

IdleChunker ==
    /\ chunkIn = [chunker |-> [chunk_size |-> 1, chunk_overlap |-> 0],
                  text |-> EmptyText, page_number |-> 1]
    /\ chunkOut = [done |-> FALSE, chunks |-> << >>]
    /\ docIn = [chunker |-> [chunk_size |-> 1, chunk_overlap |-> 0],
                doc |-> [pages |-> << >>]]
    /\ docOut = [done |-> FALSE, chunks |-> << >>]

IdleTsquery == /\ tsQuery = << >>
               /\ tsExpr = [done |-> FALSE, expr |-> << >>]

\* a rerank call of HFEndpointReranker: st is "idle", "called", "loop",
\* "returned" or "raised"; requests are the payloads posted so far, answers
\* what came back for each, data the list of the answer rerank returned on
HFCall(st, cands) ==
    [st |-> st, attempt |-> 0, candidates |-> cands, texts |-> << >>,
     requests |-> << >>, answers |-> << >>, data |-> << >>, ret |-> << >>,
     exc |-> "none"]

\* -------------------------------------------------------- EmbeddingService
EmbTexts == {"a", "b"}

\* settings.embedding_model
EmbeddingModel == "mistral-embed"

\* embed_texts(texts, batch_size=16)
DefaultBatchSize == 16

\* embedding.py:43-46: model and sha256 of the text (taken as injective)
CacheKey(text) == <<EmbeddingModel, text>>

\* the vector the n-th embeddings.create call produced for text: two calls
\* need not produce the same floats for the same text
Embedding(text, n) == [text |-> text, upstream |-> n]

\* dict assignment cache[key] = value
DictSet(cache, key, value) ==
    [k \in (DOMAIN cache) \cup {key} |-> IF k = key THEN value ELSE cache[k]]

\* embedding.py:64, 109: the assignment, and the count of it
CacheStore(st, key, embedding) ==
    [st EXCEPT !.cache = DictSet(st.cache, key, embedding),
               !.writes = DictSet(st.writes, key,
                                  IF key \in DOMAIN st.writes
                                  THEN st.writes[key] + 1 ELSE 1)]

\* embedding.py:90-96: the cache is read for every text of the batch
RECURSIVE CheckCache(_, _, _, _)
CheckCache(batch, j, cache, acc) ==
    IF j > Len(batch) THEN acc
    ELSE IF CacheKey(batch[j]) \in DOMAIN cache
         THEN CheckCache(batch, j + 1, cache,
                 [acc EXCEPT !.batch_embeddings =
                                 Append(@, <<j - 1, cache[CacheKey(batch[j])]>>)])
         ELSE CheckCache(batch, j + 1, cache,
                 [acc EXCEPT !.texts_to_embed = Append(@, batch[j]),
                             !.indices_to_embed = Append(@, j - 1)])

\* list.index(x): first position of x, counted from 0
ListIndex(list, x) == (CHOOSE q \in 1..Len(list) :
                          /\ list[q] = x
                          /\ \A r \in 1..(q - 1) : list[r] # x) - 1

\* embedding.py:106-110: zip(indices_to_embed, response.data)
RECURSIVE StoreLoop(_, _, _, _, _)
StoreLoop(texts_to_embed, indices_to_embed, data, q, st) ==
    IF q > Min(Len(indices_to_embed), Len(data)) THEN st
    ELSE LET idx == indices_to_embed[q]
             embedding == data[q]
             cache_key == CacheKey(texts_to_embed[ListIndex(indices_to_embed, idx) + 1])
             stored == CacheStore(st, cache_key, embedding)
         IN StoreLoop(texts_to_embed, indices_to_embed, data, q + 1,
                      [stored EXCEPT !.batch_embeddings = Append(@, <<idx, embedding>>)])

\* embedding.py:113: batch_embeddings.sort(key=lambda x: x[0]), stable
RECURSIVE InsertByIndex(_, _)
InsertByIndex(sorted, x) ==
    IF sorted = << >> THEN <<x>>
    ELSE IF sorted[Len(sorted)][1] <= x[1] THEN Append(sorted, x)
         ELSE Append(InsertByIndex(SubSeq(sorted, 1, Len(sorted) - 1), x),
                     sorted[Len(sorted)])

RECURSIVE SortByIndex(_)
SortByIndex(s) ==
    IF s = << >> THEN << >>
    ELSE InsertByIndex(SortByIndex(SubSeq(s, 1, Len(s) - 1)), s[Len(s)])

\* embedding.py:114: [emb for _, emb in batch_embeddings]
Embeddings(batch_embeddings) ==
    [q \in 1..Len(batch_embeddings) |-> batch_embeddings[q][2]]

\* a call: pc is "idle", "start", "await" (suspended in embeddings.create)
\* or "done"; i is the start of the current batch, counted from 0
EmbCall(at) ==
    [pc |-> at, i |-> 0, batch_embeddings |-> << >>, texts_to_embed |-> << >>,
     indices_to_embed |-> << >>, embeddings |-> << >>, total_tokens |-> 0,
     request |-> 0, ret |-> << >>]

\* embedding.py:82-99, 112-116: embed_texts runs from batch i on, with no
\* await in between, until a batch has a text that is not cached (the call
\* suspends in embeddings.create) or the texts are through (it returns)
RECURSIVE BatchLoop(_, _, _, _)
BatchLoop(args, call, cache, next_request) ==
    IF call.i >= Len(args.texts)
    THEN [call EXCEPT !.pc = "done", !.batch_embeddings = << >>,
                      !.texts_to_embed = << >>, !.indices_to_embed = << >>,
                      !.ret = [embeddings |-> call.embeddings,
                               total_tokens |-> call.total_tokens]]
    ELSE LET batch == SubSeq(args.texts, call.i + 1,
                             Min(call.i + args.batch_size, Len(args.texts)))
             checked == CheckCache(batch, 1, cache,
                                   [batch_embeddings |-> << >>,
                                    texts_to_embed |-> << >>,
                                    indices_to_embed |-> << >>])
         IN IF checked.texts_to_embed # << >>
            THEN [call EXCEPT !.pc = "await",
                              !.batch_embeddings = checked.batch_embeddings,
                              !.texts_to_embed = checked.texts_to_embed,
                              !.indices_to_embed = checked.indices_to_embed,
                              !.request = next_request]
            ELSE BatchLoop(args,
                           [call EXCEPT !.i = @ + args.batch_size,
                                        !.embeddings = @ \o Embeddings(
                                            SortByIndex(checked.batch_embeddings))],
                           cache, next_request)

IdleEmbedding ==
    /\ embIn = << >>
    /\ embCalls = << >>
    /\ embCache = << >>
    /\ embWrites = << >>
    /\ embUpstream = << >>

\* a rerank call of MistralReranker: st is "idle", "called", "returned" or
\* "raised"; requests counts the posts, answer and ranking are what came back
MistralCall(st, cands) ==
    [st |-> st, candidates |-> cands, requests |-> 0, answer |-> "none",
     ranking |-> << >>, ret |-> << >>, exc |-> "none"]

IdleMistral ==
    /\ mistralIn = [settings |-> [mistral_api_key |-> ""], query |-> "q",
                    candidates |-> << >>, topn |-> 1]
    /\ mistralRun = MistralCall("idle", << >>)

IdleHF ==
    /\ hfIn = [settings |-> [hf_rerank_url |-> "", rerank_retry_max |-> 0],
               query |-> "q", candidates |-> << >>, topn |-> 1]
    /\ hfRun = HFCall("idle", << >>)

Init == InitPipeline /\ IdleRRF /\ IdleVector /\ IdleChunker /\ IdleTsquery /\ IdleHF /\ IdleMistral /\ IdleEmbedding

\* ----------------------------------------------------- retrieve_context: 1-2
\* orchestrator.py:40-59.  embed_query returns and the two search coroutines
\* are handed to asyncio.gather.
EmbedQuery ==
    /\ pc = "embed"
    /\ pc' = "gather"
    /\ kwTask' = [st |-> "created", result |-> << >>]
    /\ vecTask' = [st |-> "created", result |-> << >>]
    /\ UNCHANGED <<settings, tenant_id, collection_ids, query,
                   dbQueries, qdrantQueries, gatherExc, merged, candidates, rr,
                   calls, result, outcome, raised, unitVars>>

\* embed_query raises: nothing catches it
EmbedFails ==
    /\ pc = "embed"
    /\ pc' = "raised"
    /\ raised' = "EmbeddingError"
    /\ outcome' = "raised"
    /\ UNCHANGED <<settings, tenant_id, collection_ids, query, kwTask, vecTask,
                   dbQueries, qdrantQueries, gatherExc, merged, candidates, rr,
                   calls, result, unitVars>>

\* A task of the gather runs from the moment gather is awaited, and keeps
\* running when the gather future already has an exception.
\* keyword_retriever.py:45-55: no safe word, no round trip
KeywordReturnsEmpty ==
    /\ kwTask.st = "created"
    /\ IsBlank(query) \/ BuildOrTsquery(query) = << >>
    /\ kwTask' = [st |-> "done", result |-> << >>]
    /\ UNCHANGED <<settings, tenant_id, collection_ids, query, pc, vecTask,
                   dbQueries, qdrantQueries, gatherExc, merged, candidates, rr,
                   calls, result, outcome, raised, unitVars>>

KeywordExecuteUnguarded ==
    /\ kwTask.st = "created"
    /\ dbQueries' = Append(dbQueries,
                       KeywordStatement(tenant_id, collection_ids,
                                        BuildOrTsquery(query),
                                        settings.hybrid_keyword_topk))
    /\ kwTask' = [st |-> "running", result |-> << >>]
    /\ UNCHANGED <<settings, tenant_id, collection_ids, query, pc, vecTask,
                   qdrantQueries, gatherExc, merged, candidates, rr,
                   calls, result, outcome, raised, unitVars>>

\* keyword_retriever.py:57-91: the statement is built and db.execute awaited
KeywordExecute ==
    /\ kwTask.st = "created"
    /\ ~IsBlank(query)
    /\ BuildOrTsquery(query) # << >>
    /\ dbQueries' = Append(dbQueries,
                       KeywordStatement(tenant_id, collection_ids,
                                        BuildOrTsquery(query),
                                        settings.hybrid_keyword_topk))
    /\ kwTask' = [st |-> "running", result |-> << >>]
    /\ UNCHANGED <<settings, tenant_id, collection_ids, query, pc, vecTask,
                   qdrantQueries, gatherExc, merged, candidates, rr,
                   calls, result, outcome, raised, unitVars>>

\* keyword_retriever.py:91-107: the rows come back
KeywordCompletes ==
    /\ kwTask.st = "running"
    /\ \E rows \in KeywordAnswers(dbQueries[Len(dbQueries)]) :
          kwTask' = [st |-> "done", result |-> KeywordChunks(rows)]
    /\ UNCHANGED <<settings, tenant_id, collection_ids, query, pc, vecTask,
                   dbQueries, qdrantQueries, gatherExc, merged, candidates, rr,
                   calls, result, outcome, raised, unitVars>>

\* db.execute raises; the first exception of a child is set on the gather
KeywordFails ==
    /\ kwTask.st = "running"
    /\ kwTask' = [st |-> "failed", result |-> << >>]
    /\ gatherExc' = IF gatherExc = "none" THEN "KeywordStorageError" ELSE gatherExc
    /\ UNCHANGED <<settings, tenant_id, collection_ids, query, pc, vecTask,
                   dbQueries, qdrantQueries, merged, candidates, rr,
                   calls, result, outcome, raised, unitVars>>

\* vector_retriever.py:22-28, vector_store.py:147-174: query_points awaited
VectorExecute ==
    /\ vecTask.st = "created"
    /\ qdrantQueries' = Append(qdrantQueries,
                           VectorFilter(tenant_id, collection_ids,
                                        settings.hybrid_vector_topk))
    /\ vecTask' = [st |-> "running", result |-> << >>]
    /\ UNCHANGED <<settings, tenant_id, collection_ids, query, pc, kwTask,
                   dbQueries, gatherExc, merged, candidates, rr,
                   calls, result, outcome, raised, unitVars>>

\* vector_store.py:176-183, vector_retriever.py:30-44: the points come back
VectorCompletes ==
    /\ vecTask.st = "running"
    /\ \E matchAll \in BOOLEAN :
         \E points \in VectorAnswers(qdrantQueries[Len(qdrantQueries)], matchAll) :
            vecTask' = [st |-> "done", result |-> VectorChunks(points)]
    /\ UNCHANGED <<settings, tenant_id, collection_ids, query, pc, kwTask,
                   dbQueries, qdrantQueries, gatherExc, merged, candidates, rr,
                   calls, result, outcome, raised, unitVars>>

VectorFails ==
    /\ vecTask.st = "running"
    /\ vecTask' = [st |-> "failed", result |-> << >>]
    /\ gatherExc' = IF gatherExc = "none" THEN "VectorStorageError" ELSE gatherExc
    /\ UNCHANGED <<settings, tenant_id, collection_ids, query, pc, kwTask,
                   dbQueries, qdrantQueries, merged, candidates, rr,
                   calls, result, outcome, raised, unitVars>>

\* orchestrator.py:59: await asyncio.gather(...) raises the children's first
\* exception
GatherRaises ==
    /\ pc = "gather"
    /\ gatherExc # "none"
    /\ pc' = "raised"
    /\ raised' = gatherExc
    /\ outcome' = "raised"
    /\ UNCHANGED <<settings, tenant_id, collection_ids, query, kwTask, vecTask,
                   dbQueries, qdrantQueries, gatherExc, merged, candidates, rr,
                   calls, result, unitVars>>

\* ----------------------------------------------------- retrieve_context: 3-6
FirstSearchDone == kwTask.st = "done" \/ vecTask.st = "done"

\* asyncio.gather returns when every child has a result
BothSearchesDone == kwTask.st = "done" /\ vecTask.st = "done"

\* orchestrator.py:69-70
FusedAll(cfg, kw, vec) == rrf_merge(kw, vec, cfg.hybrid_rrf_k)

FusedCandidatesUncut(cfg, kw, vec) == FusedAll(cfg, kw, vec)

FusedCandidates(cfg, kw, vec) == Prefix(FusedAll(cfg, kw, vec), cfg.rerank_max_candidates)

RerankSkippedWhenDisabledOnly(cfg, cands) == ~cfg.rerank_enabled

\* orchestrator.py:73: `not settings.rerank_enabled or not candidates`
RerankSkipped(cfg, cands) == ~cfg.rerank_enabled \/ cands = << >>

RRFOrderResultSorted(cfg, cands) == Prefix(SortByRerank(cands), cfg.rerank_final_topn)

\* orchestrator.py:79 and :117: candidates[: settings.rerank_final_topn]
RRFOrderResult(cfg, cands) == Prefix(cands, cfg.rerank_final_topn)

NewCall(who, provider) ==
    [who |-> who, provider |-> provider, st |-> "called", attempt |-> 0,
     ret |-> << >>, exc |-> "none", score_map |-> << >>]

\* orchestrator.py:59-79: gather returned; reranking disabled or nothing to
\* rerank
ReturnWithoutRerank ==
    /\ pc = "gather"
    /\ gatherExc = "none"
    /\ BothSearchesDone
    /\ LET cands == FusedCandidates(settings, kwTask.result, vecTask.result) IN
         /\ RerankSkipped(settings, cands)
         /\ merged' = FusedAll(settings, kwTask.result, vecTask.result)
         /\ candidates' = cands
         /\ result' = RRFOrderResult(settings, cands)
    /\ outcome' = "no_rerank"
    /\ pc' = "returned"
    /\ UNCHANGED <<settings, tenant_id, collection_ids, query, kwTask, vecTask,
                   dbQueries, qdrantQueries, gatherExc, rr, calls, raised,
                   unitVars>>

\* orchestrator.py:81-82, 111-117: get_reranker() gave None
ReturnNoReranker ==
    /\ pc = "gather"
    /\ gatherExc = "none"
    /\ BothSearchesDone
    /\ LET cands == FusedCandidates(settings, kwTask.result, vecTask.result) IN
         /\ ~RerankSkipped(settings, cands)
         /\ get_reranker(settings) = "None"
         /\ merged' = FusedAll(settings, kwTask.result, vecTask.result)
         /\ candidates' = cands
         /\ result' = RRFOrderResult(settings, cands)
    /\ outcome' = "rrf_fallback"
    /\ pc' = "returned"
    /\ UNCHANGED <<settings, tenant_id, collection_ids, query, kwTask, vecTask,
                   dbQueries, qdrantQueries, gatherExc, rr, calls, raised,
                   unitVars>>

\* orchestrator.py:81-84: await reranker.rerank(query, candidates, topn=...)
CallPrimary ==
    /\ pc = "gather"
    /\ gatherExc = "none"
    /\ BothSearchesDone
    /\ LET cands == FusedCandidates(settings, kwTask.result, vecTask.result) IN
         /\ ~RerankSkipped(settings, cands)
         /\ get_reranker(settings) # "None"
         /\ merged' = FusedAll(settings, kwTask.result, vecTask.result)
         /\ candidates' = cands
    /\ rr' = NewCall("primary", get_reranker(settings))
    /\ calls' = [calls EXCEPT !.primary = @ + 1]
    /\ pc' = "primary"
    /\ UNCHANGED <<settings, tenant_id, collection_ids, query, kwTask, vecTask,
                   dbQueries, qdrantQueries, gatherExc, result, outcome, raised,
                   unitVars>>

\* orchestrator.py:84-91
PrimaryReturns ==
    /\ pc = "primary"
    /\ rr.st = "returned"
    /\ result' = rr.ret
    /\ outcome' = "primary"
    /\ pc' = "returned"
    /\ UNCHANGED <<settings, tenant_id, collection_ids, query, kwTask, vecTask,
                   dbQueries, qdrantQueries, gatherExc, merged, candidates, rr,
                   calls, raised, unitVars>>

CallFallbackAfterAnyEnd ==
    /\ pc = "primary"
    /\ rr.st \in {"rpe", "returned"}
    /\ get_fallback_reranker(settings) # "None"
    /\ rr' = NewCall("fallback", get_fallback_reranker(settings))
    /\ calls' = [calls EXCEPT !.fallback = @ + 1]
    /\ pc' = "fallback"
    /\ UNCHANGED <<settings, tenant_id, collection_ids, query, kwTask, vecTask,
                   dbQueries, qdrantQueries, gatherExc, merged, candidates,
                   result, outcome, raised, unitVars>>

\* orchestrator.py:92-100: except RerankProviderError, a fallback is configured
CallFallback ==
    /\ pc = "primary"
    /\ rr.st = "rpe"
    /\ get_fallback_reranker(settings) # "None"
    /\ rr' = NewCall("fallback", get_fallback_reranker(settings))
    /\ calls' = [calls EXCEPT !.fallback = @ + 1]
    /\ pc' = "fallback"
    /\ UNCHANGED <<settings, tenant_id, collection_ids, query, kwTask, vecTask,
                   dbQueries, qdrantQueries, gatherExc, merged, candidates,
                   result, outcome, raised, unitVars>>

\* orchestrator.py:92-96, 111-117: except RerankProviderError, no fallback
DegradeNoFallback ==
    /\ pc = "primary"
    /\ rr.st = "rpe"
    /\ get_fallback_reranker(settings) = "None"
    /\ result' = RRFOrderResult(settings, candidates)
    /\ outcome' = "rrf_fallback"
    /\ pc' = "returned"
    /\ UNCHANGED <<settings, tenant_id, collection_ids, query, kwTask, vecTask,
                   dbQueries, qdrantQueries, gatherExc, merged, candidates, rr,
                   calls, raised, unitVars>>

FallbackReturnsRRFOrder ==
    /\ pc = "fallback"
    /\ rr.st = "returned"
    /\ result' = RRFOrderResult(settings, candidates)
    /\ outcome' = "fallback"
    /\ pc' = "returned"
    /\ UNCHANGED <<settings, tenant_id, collection_ids, query, kwTask, vecTask,
                   dbQueries, qdrantQueries, gatherExc, merged, candidates, rr,
                   calls, raised, unitVars>>

\* orchestrator.py:98-107
FallbackReturns ==
    /\ pc = "fallback"
    /\ rr.st = "returned"
    /\ result' = rr.ret
    /\ outcome' = "fallback"
    /\ pc' = "returned"
    /\ UNCHANGED <<settings, tenant_id, collection_ids, query, kwTask, vecTask,
                   dbQueries, qdrantQueries, gatherExc, merged, candidates, rr,
                   calls, raised, unitVars>>

\* orchestrator.py:108-117: the fallback raised RerankProviderError too
DegradeFallbackFailed ==
    /\ pc = "fallback"
    /\ rr.st = "rpe"
    /\ result' = RRFOrderResult(settings, candidates)
    /\ outcome' = "rrf_fallback"
    /\ pc' = "returned"
    /\ UNCHANGED <<settings, tenant_id, collection_ids, query, kwTask, vecTask,
                   dbQueries, qdrantQueries, gatherExc, merged, candidates, rr,
                   calls, raised, unitVars>>

\* orchestrator.py:83-109: an exception of a reranker that is not a
\* RerankProviderError passes both except clauses
RerankerRaises ==
    /\ pc \in {"primary", "fallback"}
    /\ rr.st = "exc"
    /\ raised' = rr.exc
    /\ outcome' = "raised"
    /\ pc' = "raised"
    /\ UNCHANGED <<settings, tenant_id, collection_ids, query, kwTask, vecTask,
                   dbQueries, qdrantQueries, gatherExc, merged, candidates, rr,
                   calls, result, unitVars>>

\* ------------------------------------------------ HFEndpointReranker.rerank
RerankerCalled(provider) ==
    /\ pc \in {"primary", "fallback"}
    /\ rr.provider = provider

\* reranker_hf.py:33-40: base URL empty
HFNotConfigured ==
    /\ RerankerCalled("hf_endpoint")
    /\ rr.st = "called"
    /\ settings.hf_rerank_url = ""
    /\ rr' = [rr EXCEPT !.st = "rpe"]
    /\ UNCHANGED <<settings, tenant_id, collection_ids, query, pc, kwTask, vecTask,
                   dbQueries, qdrantQueries, gatherExc, merged, candidates,
                   calls, result, outcome, raised, unitVars>>

\* reranker_hf.py:42-52: payload built, the attempt loop is entered
HFBuildRequest ==
    /\ RerankerCalled("hf_endpoint")
    /\ rr.st = "called"
    /\ settings.hf_rerank_url # ""
    /\ rr' = [rr EXCEPT !.st = "hf_loop", !.attempt = 0]
    /\ UNCHANGED <<settings, tenant_id, collection_ids, query, pc, kwTask, vecTask,
                   dbQueries, qdrantQueries, gatherExc, merged, candidates,
                   calls, result, outcome, raised, unitVars>>

\* range(1 + max_retries) has an attempt left
HFAttemptLeft ==
    /\ RerankerCalled("hf_endpoint")
    /\ rr.st = "hf_loop"
    /\ rr.attempt < 1 + settings.rerank_retry_max

\* reranker_hf.py:54-59, 83-85: post, raise_for_status or response.json()
\* raises (json.JSONDecodeError is a ValueError); the except clause takes it.
\* last_error only feeds the text of the final message and is not kept.
HFRequestFails ==
    /\ HFAttemptLeft
    /\ \E exc \in {"HTTPError", "TimeoutException", "ValueError"} :
          /\ HFCaught(exc)
          /\ rr' = [rr EXCEPT !.attempt = @ + 1]
    /\ calls' = [calls EXCEPT !.hf_http = @ + 1]
    /\ UNCHANGED <<settings, tenant_id, collection_ids, query, pc, kwTask, vecTask,
                   dbQueries, qdrantQueries, gatherExc, merged, candidates,
                   result, outcome, raised, unitVars>>

\* reranker_hf.py:61-65: the JSON is not a list; RerankProviderError is not
\* in the except clause and leaves the loop
HFResponseNotList ==
    /\ HFAttemptLeft
    /\ rr' = [rr EXCEPT !.st = "rpe"]
    /\ calls' = [calls EXCEPT !.hf_http = @ + 1]
    /\ UNCHANGED <<settings, tenant_id, collection_ids, query, pc, kwTask, vecTask,
                   dbQueries, qdrantQueries, gatherExc, merged, candidates,
                   result, outcome, raised, unitVars>>

\* reranker_hf.py:59-67: the JSON is a list; the loop over it is entered
HFResponseList ==
    /\ HFAttemptLeft
    /\ rr' = [rr EXCEPT !.st = "hf_items"]
    /\ calls' = [calls EXCEPT !.hf_http = @ + 1]
    /\ UNCHANGED <<settings, tenant_id, collection_ids, query, pc, kwTask, vecTask,
                   dbQueries, qdrantQueries, gatherExc, merged, candidates,
                   result, outcome, raised, unitVars>>

\* reranker_hf.py:68-72, 83-85: the next item of the list.  A ValueError
\* goes to the except clause and the next attempt; any other exception
\* leaves rerank.  The scores written so far stay on the candidates.
HFNextItem ==
    /\ RerankerCalled("hf_endpoint")
    /\ rr.st = "hf_items"
    /\ \E item \in HFItems(Len(candidates)) :
         LET r == HFApplyItem(item, candidates) IN
           /\ candidates' = r.cands
           /\ rr' = IF r.exc = "none" THEN rr
                    ELSE IF HFCaught(r.exc)
                    THEN [rr EXCEPT !.st = "hf_loop", !.attempt = @ + 1]
                    ELSE [rr EXCEPT !.st = "exc", !.exc = r.exc]
    /\ UNCHANGED <<settings, tenant_id, collection_ids, query, pc, kwTask, vecTask,
                   dbQueries, qdrantQueries, gatherExc, merged, calls,
                   result, outcome, raised, unitVars>>

\* reranker_hf.py:74-81: the list is through; sort and cut to top_n
HFListEnd ==
    /\ RerankerCalled("hf_endpoint")
    /\ rr.st = "hf_items"
    /\ rr' = [rr EXCEPT !.st = "returned",
                        !.ret = Prefix(SortByRerank(candidates),
                                       settings.rerank_final_topn)]
    /\ UNCHANGED <<settings, tenant_id, collection_ids, query, pc, kwTask, vecTask,
                   dbQueries, qdrantQueries, gatherExc, merged, candidates, calls,
                   result, outcome, raised, unitVars>>

\* reranker_hf.py:87: the loop ran out
HFRetriesExhausted ==
    /\ RerankerCalled("hf_endpoint")
    /\ rr.st = "hf_loop"
    /\ rr.attempt >= 1 + settings.rerank_retry_max
    /\ rr' = [rr EXCEPT !.st = "rpe"]
    /\ UNCHANGED <<settings, tenant_id, collection_ids, query, pc, kwTask, vecTask,
                   dbQueries, qdrantQueries, gatherExc, merged, candidates,
                   calls, result, outcome, raised, unitVars>>

\* --------------------------------------------------- MistralReranker.rerank
\* reranker_mistral.py:47-48: API key empty
MistralNotConfigured ==
    /\ RerankerCalled("mistral")
    /\ rr.st = "called"
    /\ settings.mistral_api_key = ""
    /\ rr' = [rr EXCEPT !.st = "rpe"]
    /\ UNCHANGED <<settings, tenant_id, collection_ids, query, pc, kwTask, vecTask,
                   dbQueries, qdrantQueries, gatherExc, merged, candidates,
                   calls, result, outcome, raised, unitVars>>

MistralRequestSent ==
    /\ RerankerCalled("mistral")
    /\ rr.st = "called"
    /\ settings.mistral_api_key # ""

\* reranker_mistral.py:66-79: httpx.HTTPError / TimeoutException
MistralRequestFails ==
    /\ MistralRequestSent
    /\ rr' = [rr EXCEPT !.st = "rpe"]
    /\ calls' = [calls EXCEPT !.mistral_http = @ + 1]
    /\ UNCHANGED <<settings, tenant_id, collection_ids, query, pc, kwTask, vecTask,
                   dbQueries, qdrantQueries, gatherExc, merged, candidates,
                   result, outcome, raised, unitVars>>

\* reranker_mistral.py:82-91: JSONDecodeError, KeyError, IndexError or
\* ValueError while parsing (body or content not JSON, a key missing,
\* choices empty, "ranking" not a list)
MistralInvalidResponse ==
    /\ MistralRequestSent
    /\ rr' = [rr EXCEPT !.st = "rpe"]
    /\ calls' = [calls EXCEPT !.mistral_http = @ + 1]
    /\ UNCHANGED <<settings, tenant_id, collection_ids, query, pc, kwTask, vecTask,
                   dbQueries, qdrantQueries, gatherExc, merged, candidates,
                   result, outcome, raised, unitVars>>

\* reranker_mistral.py:83-86: the JSON nests differently (the body or the
\* content is a list or a string, "choices" is an object): subscripting
\* raises TypeError, which the except clause of :89 does not list
MistralUnexpectedShape ==
    /\ MistralRequestSent
    /\ rr' = [rr EXCEPT !.st = "exc", !.exc = "TypeError"]
    /\ calls' = [calls EXCEPT !.mistral_http = @ + 1]
    /\ UNCHANGED <<settings, tenant_id, collection_ids, query, pc, kwTask, vecTask,
                   dbQueries, qdrantQueries, gatherExc, merged, candidates,
                   result, outcome, raised, unitVars>>

\* reranker_mistral.py:82-93: "ranking" is a list; score_map starts empty
MistralRanking ==
    /\ MistralRequestSent
    /\ rr' = [rr EXCEPT !.st = "mistral_items", !.score_map = << >>]
    /\ calls' = [calls EXCEPT !.mistral_http = @ + 1]
    /\ UNCHANGED <<settings, tenant_id, collection_ids, query, pc, kwTask, vecTask,
                   dbQueries, qdrantQueries, gatherExc, merged, candidates,
                   result, outcome, raised, unitVars>>

\* reranker_mistral.py:94-98: the next item of the ranking.  The loop is
\* outside any try, so every exception of a turn leaves rerank as it is.
MistralNextItem ==
    /\ RerankerCalled("mistral")
    /\ rr.st = "mistral_items"
    /\ \E item \in MistralItems(Range(ChunkIds(candidates)) \cup {"c9"}) :
         LET r == MistralScoreItem(item, rr.score_map) IN
           rr' = IF r.exc = "none"
                 THEN [rr EXCEPT !.score_map = r.score_map]
                 ELSE [rr EXCEPT !.st = "exc", !.exc = r.exc, !.score_map = << >>]
    /\ UNCHANGED <<settings, tenant_id, collection_ids, query, pc, kwTask, vecTask,
                   dbQueries, qdrantQueries, gatherExc, merged, candidates, calls,
                   result, outcome, raised, unitVars>>

\* reranker_mistral.py:100-106: the ranking is through; scores assigned
\* (-inf where the map has none), sort and cut to top_n
MistralListEnd ==
    /\ RerankerCalled("mistral")
    /\ rr.st = "mistral_items"
    /\ LET scored == MistralAssign(candidates, rr.score_map) IN
         /\ candidates' = scored
         /\ rr' = [rr EXCEPT !.st = "returned", !.score_map = << >>,
                             !.ret = Prefix(SortByRerank(scored),
                                            settings.rerank_final_topn)]
    /\ UNCHANGED <<settings, tenant_id, collection_ids, query, pc, kwTask, vecTask,
                   dbQueries, qdrantQueries, gatherExc, merged, calls,
                   result, outcome, raised, unitVars>>

\* ------------------------------------------------------------ specification
Next ==
    \/ EmbedQuery
    \/ EmbedFails
    \/ KeywordReturnsEmpty
    \/ KeywordExecute
    \/ KeywordCompletes
    \/ KeywordFails
    \/ VectorExecute
    \/ VectorCompletes
    \/ VectorFails
    \/ GatherRaises
    \/ ReturnWithoutRerank
    \/ ReturnNoReranker
    \/ CallPrimary
    \/ PrimaryReturns
    \/ CallFallback
    \/ DegradeNoFallback
    \/ FallbackReturns
    \/ DegradeFallbackFailed
    \/ RerankerRaises
    \/ HFNotConfigured
    \/ HFBuildRequest
    \/ HFRequestFails
    \/ HFResponseNotList
    \/ HFResponseList
    \/ HFNextItem
    \/ HFListEnd
    \/ HFRetriesExhausted
    \/ MistralNotConfigured
    \/ MistralRequestFails
    \/ MistralInvalidResponse
    \/ MistralUnexpectedShape
    \/ MistralRanking
    \/ MistralNextItem
    \/ MistralListEnd

Spec == Init /\ [][Next]_vars

\* ------------------------------------------------ rrf_merge on its own
\* The pipeline at rest, for the specifications of the pure functions.
RestSettings ==
    [rerank_enabled |-> FALSE, rerank_provider |-> "hf_endpoint",
     rerank_fallback_provider |-> "mistral", hf_rerank_url |-> "",
     mistral_api_key |-> "", rerank_retry_max |-> 0,
     rerank_max_candidates |-> 1, rerank_final_topn |-> 1,
     hybrid_rrf_k |-> DefaultRRFK, hybrid_keyword_topk |-> MaxListLen,
     hybrid_vector_topk |-> MaxListLen]

PipelineAtRest ==
    /\ settings = RestSettings
    /\ tenant_id = "t1"
    /\ collection_ids = NoCollections
    /\ query = << >>
    /\ pc = "rest"
    /\ kwTask = IdleTask
    /\ vecTask = IdleTask
    /\ dbQueries = << >>
    /\ qdrantQueries = << >>
    /\ gatherExc = "none"
    /\ merged = << >>
    /\ candidates = << >>
    /\ rr = IdleReranker
    /\ calls = [primary |-> 0, fallback |-> 0, hf_http |-> 0, mistral_http |-> 0]
    /\ result = << >>
    /\ outcome = "running"
    /\ raised = "none"

RRFIds == {"c1", "c2", "c3"}

RRFKs == {1, DefaultRRFK}

\* the records a caller can put in a list: any id, with or without filename
RRFChunks(origin) ==
    {RetrievedChunk(cid, fname, origin) : cid \in RRFIds, fname \in {"", "f.pdf"}}

\* 3 keyword hits [c1,c2,c3] and 3 vector hits [c1,c4,c5], k = 60: keyword
\* hits carry no filename (keyword_retriever.py:98), vector hits do
FusionExample ==
    [kw |-> <<RetrievedChunk("c1", "", "keyword"), RetrievedChunk("c2", "", "keyword"),
              RetrievedChunk("c3", "", "keyword")>>,
     vec |-> <<RetrievedChunk("c1", "f.pdf", "vector"), RetrievedChunk("c4", "f.pdf", "vector"),
               RetrievedChunk("c5", "f.pdf", "vector")>>,
     k |-> DefaultRRFK]

\* two lists of 3 hits that share their last hit only, under each k
SharedLastHit ==
    {[kw |-> <<RetrievedChunk("c1", "", "keyword"), RetrievedChunk("c2", "", "keyword"),
               RetrievedChunk("c3", "", "keyword")>>,
      vec |-> <<RetrievedChunk("c4", "f.pdf", "vector"), RetrievedChunk("c5", "f.pdf", "vector"),
                RetrievedChunk("c3", "f.pdf", "vector")>>,
      k |-> k] : k \in RRFKs}

InitRRF ==
    /\ PipelineAtRest
    /\ IdleEmbedding
    /\ IdleMistral
    /\ IdleHF
    /\ IdleTsquery
    /\ IdleVector
    /\ IdleChunker
    /\ rrfIn \in [kw : SeqsUpTo(RRFChunks("keyword"), MaxListLen),
                  vec : SeqsUpTo(RRFChunks("vector"), MaxListLen),
                  k : RRFKs] \cup {FusionExample} \cup SharedLastHit
    /\ rrfOut = [done |-> FALSE, merged |-> << >>]
    /\ rrfAgain = [done |-> FALSE, merged |-> << >>]

CallRRFMerge ==
    /\ ~rrfOut.done
    /\ rrfOut' = [done |-> TRUE, merged |-> rrf_merge(rrfIn.kw, rrfIn.vec, rrfIn.k)]
    /\ UNCHANGED <<pipelineVars, embeddingVars, mistralVars, hfVars, rrfIn, rrfAgain, vectorVars, chunkerVars, tsQuery, tsExpr>>

\* hybrid.py:41-44 writes fused_score on the records of chunk_map, which are
\* the caller's own objects: after the call the lists hold them as mutated
AfterCall(list, out) ==
    [i \in 1..Len(list) |->
        IF \E j \in 1..Len(out) :
              [out[j] EXCEPT !.fused_score = NoneVal] = list[i]
        THEN [list[i] EXCEPT !.fused_score =
                 (CHOOSE c \in Range(out) : c.chunk_id = list[i].chunk_id).fused_score]
        ELSE list[i]]

\* the caller calls rrf_merge again with the same lists and the same k
CallRRFMergeAgain ==
    /\ rrfOut.done
    /\ ~rrfAgain.done
    /\ rrfAgain' = [done |-> TRUE,
                    merged |-> rrf_merge(AfterCall(rrfIn.kw, rrfOut.merged),
                                         AfterCall(rrfIn.vec, rrfOut.merged),
                                         rrfIn.k)]
    /\ UNCHANGED <<pipelineVars, embeddingVars, mistralVars, hfVars, rrfIn, rrfOut, vectorVars, chunkerVars, tsQuery, tsExpr>>

NextRRF ==
    \/ CallRRFMerge
    \/ CallRRFMergeAgain

SpecRRF == InitRRF /\ [][NextRRF]_vars

\* -------------------------------------------- keyword_search on its own
\* keyword_search(db, tenant_id, collection_ids, query, topk) called by
\* itself, as tests/test_hybrid_retrieval.py does: any tenant, any collection
\* argument, any query string over the alphabet.
InitKeyword ==
    /\ settings = RestSettings
    /\ tenant_id \in Tenants
    /\ collection_ids \in CollectionArgs
    /\ query \in SeqsUpTo(QueryAlphabet, MaxQueryLen)
    /\ pc = "rest"
    /\ kwTask = [st |-> "created", result |-> << >>]
    /\ vecTask = IdleTask
    /\ dbQueries = << >>
    /\ qdrantQueries = << >>
    /\ gatherExc = "none"
    /\ merged = << >>
    /\ candidates = << >>
    /\ rr = IdleReranker
    /\ calls = [primary |-> 0, fallback |-> 0, hf_http |-> 0, mistral_http |-> 0]
    /\ result = << >>
    /\ outcome = "running"
    /\ raised = "none"
    /\ IdleRRF
    /\ IdleVector
    /\ IdleChunker
    /\ IdleTsquery
    /\ IdleHF
    /\ IdleMistral
    /\ IdleEmbedding

NextKeyword ==
    \/ KeywordReturnsEmpty
    \/ KeywordExecute
    \/ KeywordCompletes
    \/ KeywordFails

SpecKeyword == InitKeyword /\ [][NextKeyword]_vars

\* --------------------------------------------- vector_search on its own
\* vector_search(tenant_id, collection_ids, query_embedding, topk) called by
\* itself.  The query embedding and the stored vectors are given by the
\* similarity of each stored chunk to the query.
InitVector ==
    /\ PipelineAtRest
    /\ IdleEmbedding
    /\ IdleMistral
    /\ IdleHF
    /\ IdleRRF
    /\ IdleTsquery
    /\ IdleChunker
    /\ vecIn \in [tenant : Tenants,
                  collections : CollectionArgs,
                  topk : 1..MaxListLen,
                  similarity : [{r.id : r \in StoreChunks} -> SimValues]]
    /\ vecOut = [done |-> FALSE, raised |-> FALSE, chunks |-> << >>, scores |-> << >>]

\* vector_retriever.py:22-44 with vector_store.py:147-183: one query_points
\* call with score_threshold=0.0, its points mapped to RetrievedChunk
CallVectorSearch ==
    /\ ~vecOut.done
    /\ LET flt == VectorFilter(vecIn.tenant, vecIn.collections, vecIn.topk) IN
         \E thresholdStrict, emptyShouldMatchesAll \in BOOLEAN :
            \E points \in QdrantAnswers(flt, vecIn.similarity, thresholdStrict,
                                        emptyShouldMatchesAll) :
               vecOut' = [done |-> TRUE, raised |-> FALSE,
                          chunks |-> VectorChunks(points),
                          scores |-> [i \in 1..Len(points) |-> vecIn.similarity[points[i].id]]]
    /\ UNCHANGED <<pipelineVars, embeddingVars, mistralVars, hfVars, rrfIn, rrfOut, rrfAgain, vecIn, chunkerVars, tsQuery, tsExpr>>

\* query_points raises (vector_store.py:168); vector_search lets it through
VectorSearchRaises ==
    /\ ~vecOut.done
    /\ vecOut' = [done |-> TRUE, raised |-> TRUE, chunks |-> << >>, scores |-> << >>]
    /\ UNCHANGED <<pipelineVars, embeddingVars, mistralVars, hfVars, rrfIn, rrfOut, rrfAgain, vecIn, chunkerVars, tsQuery, tsExpr>>

NextVector ==
    \/ CallVectorSearch
    \/ VectorSearchRaises

SpecVector == InitVector /\ [][NextVector]_vars

\* ------------------------------------------------ chunk_text on its own
\* the texts: empty, whitespace only, or up to MaxSentences sentences of up
\* to MaxSentTokens tokens each
Texts ==
    {EmptyText, WhitespaceText}
    \cup {Text(ss) : ss \in SeqsUpTo(1..MaxSentTokens, MaxSentences) \ {<< >>}}

InitChunkText ==
    /\ PipelineAtRest
    /\ IdleEmbedding
    /\ IdleMistral
    /\ IdleHF
    /\ IdleRRF
    /\ IdleVector
    /\ IdleTsquery
    /\ chunkIn \in [chunker : Chunkers, text : Texts, page_number : {1}]
    /\ chunkOut = [done |-> FALSE, chunks |-> << >>]
    /\ docIn = [chunker |-> [chunk_size |-> 1, chunk_overlap |-> 0],
                doc |-> [pages |-> << >>]]
    /\ docOut = [done |-> FALSE, chunks |-> << >>]

CallChunkText ==
    /\ ~chunkOut.done
    /\ chunkOut' = [done |-> TRUE,
                    chunks |-> chunk_text(chunkIn.chunker, chunkIn.text, chunkIn.page_number)]
    /\ UNCHANGED <<pipelineVars, embeddingVars, mistralVars, hfVars, rrfIn, rrfOut, rrfAgain, vectorVars, chunkIn, docIn,
                   docOut, tsQuery, tsExpr>>

NextChunkText == CallChunkText

SpecChunkText == InitChunkText /\ [][NextChunkText]_vars

\* -------------------------------------------- chunk_document on its own
\* page contents: empty, whitespace only, one short sentence, sentences that
\* overflow one window, a sentence longer than every chunk_size
PageTexts ==
    {EmptyText, WhitespaceText, Text(<<1>>), Text(<<1, MaxChunkSize>>),
     Text(<<MaxChunkSize + 1>>)}

\* ParsedDocument: pages numbered from 1 in order
Documents ==
    {[pages |-> [p \in 1..Len(texts) |-> [page_number |-> p, content |-> texts[p]]]] :
        texts \in SeqsUpTo(PageTexts, MaxPages)}

InitChunkDocument ==
    /\ PipelineAtRest
    /\ IdleEmbedding
    /\ IdleMistral
    /\ IdleHF
    /\ IdleRRF
    /\ IdleVector
    /\ IdleTsquery
    /\ chunkIn = [chunker |-> [chunk_size |-> 1, chunk_overlap |-> 0],
                  text |-> EmptyText, page_number |-> 1]
    /\ chunkOut = [done |-> FALSE, chunks |-> << >>]
    /\ docIn \in [chunker : Chunkers, doc : Documents]
    /\ docOut = [done |-> FALSE, chunks |-> << >>]

CallChunkDocument ==
    /\ ~docOut.done
    /\ docOut' = [done |-> TRUE, chunks |-> chunk_document(docIn.chunker, docIn.doc)]
    /\ UNCHANGED <<pipelineVars, embeddingVars, mistralVars, hfVars, rrfIn, rrfOut, rrfAgain, vectorVars, chunkIn, chunkOut,
                   docIn, tsQuery, tsExpr>>

NextChunkDocument == CallChunkDocument

SpecChunkDocument == InitChunkDocument /\ [][NextChunkDocument]_vars

\* ---------------------------------------- _build_or_tsquery on its own
InitTsquery ==
    /\ PipelineAtRest
    /\ IdleEmbedding
    /\ IdleMistral
    /\ IdleHF
    /\ IdleRRF
    /\ IdleVector
    /\ IdleChunker
    /\ tsQuery \in SeqsUpTo(QueryAlphabet, MaxQueryLen)
    /\ tsExpr = [done |-> FALSE, expr |-> << >>]

CallBuildOrTsquery ==
    /\ ~tsExpr.done
    /\ tsExpr' = [done |-> TRUE, expr |-> BuildOrTsquery(tsQuery)]
    /\ UNCHANGED <<pipelineVars, embeddingVars, mistralVars, hfVars, rrfIn, rrfOut, rrfAgain, vectorVars, chunkerVars, tsQuery>>

NextTsquery == CallBuildOrTsquery

SpecTsquery == InitTsquery /\ [][NextTsquery]_vars

\* ------------------------------------ HFEndpointReranker.rerank on its own
HFCandidateIds == {"c1", "c2"}

\* candidate lists as retrieve_context hands them over: no id twice
HFCandidateLists ==
    InjSeqsUpTo({RetrievedChunk(c, "", "keyword") : c \in HFCandidateIds}, MaxListLen)

\* what one post can come back with: an exception of the request or of
\* response.json(), a JSON value that is not a list, or a list with at
\* most one item per text
HFAnswers(n) ==
    {[kind |-> kd, data |-> << >>] :
        kd \in {"HTTPError", "TimeoutException", "ValueError", "notlist"}}
    \cup {[kind |-> "list", data |-> d] : d \in SeqsUpTo(HFListItems(n), n)}

InitHF ==
    /\ PipelineAtRest
    /\ IdleEmbedding
    /\ IdleMistral
    /\ IdleRRF
    /\ IdleVector
    /\ IdleChunker
    /\ IdleTsquery
    /\ hfIn \in [settings : [hf_rerank_url : {"", "http://tei"},
                              rerank_retry_max : 0..MaxRetry],
                  query : {"q"},
                  candidates : HFCandidateLists,
                  topn : 1..MaxTopn]
    /\ hfRun = HFCall("called", hfIn.candidates)

HFRerankNotConfiguredAfterPost ==
    /\ hfRun.st = "called"
    /\ hfIn.settings.hf_rerank_url = ""
    /\ hfRun' = [hfRun EXCEPT !.st = "raised", !.exc = "RerankProviderError",
                              !.requests = <<[query |-> hfIn.query,
                                              texts |-> ChunkIds(hfIn.candidates)]>>]
    /\ UNCHANGED <<pipelineVars, embeddingVars, mistralVars, rrfIn, rrfOut, rrfAgain, vectorVars,
                   chunkerVars, tsQuery, tsExpr, hfIn>>

\* reranker_hf.py:33-40: base URL empty
HFRerankNotConfigured ==
    /\ hfRun.st = "called"
    /\ hfIn.settings.hf_rerank_url = ""
    /\ hfRun' = [hfRun EXCEPT !.st = "raised", !.exc = "RerankProviderError"]
    /\ UNCHANGED <<pipelineVars, embeddingVars, mistralVars, rrfIn, rrfOut, rrfAgain, vectorVars,
                   chunkerVars, tsQuery, tsExpr, hfIn>>

\* reranker_hf.py:42-52: texts and payload are built once, before the loop
\* (a text is named by the id of its chunk)
HFRerankBuildRequest ==
    /\ hfRun.st = "called"
    /\ hfIn.settings.hf_rerank_url # ""
    /\ hfRun' = [hfRun EXCEPT !.st = "loop", !.texts = ChunkIds(hfIn.candidates)]
    /\ UNCHANGED <<pipelineVars, embeddingVars, mistralVars, rrfIn, rrfOut, rrfAgain, vectorVars,
                   chunkerVars, tsQuery, tsExpr, hfIn>>

\* an item the loop of reranker_hf.py:68-72 takes without raising
HFItemWellFormed(item) == item.kind \in {"ok", "noindex"}

\* what an answer is, whatever rerank makes of it: a list is "badlist" when
\* one of its items is not an object with a number for score
HFAnswerLog(answer) ==
    IF /\ answer.kind = "list"
       /\ \E p \in 1..Len(answer.data) : ~HFItemWellFormed(answer.data[p])
    THEN "badlist"
    ELSE answer.kind

\* the payload every post of the call carries
HFPayload == [query |-> hfIn.query, texts |-> hfRun.texts]

\* range(1 + max_retries) with no attempt left
HFRerankRangeEndsEarly(run, max_retries) == run.attempt >= max_retries

HFRerankRangeEnds(run, max_retries) == run.attempt >= 1 + max_retries

\* reranker_hf.py:53-85, one turn of the attempt loop: the post, the answer
\* and what rerank does with it
HFRerankAttempt ==
    /\ hfRun.st = "loop"
    /\ ~HFRerankRangeEnds(hfRun, hfIn.settings.rerank_retry_max)
    /\ \E answer \in HFAnswers(Len(hfIn.candidates)) :
         LET sent == [hfRun EXCEPT !.requests = Append(@, HFPayload),
                                   !.answers = Append(@, HFAnswerLog(answer))]
             loop == HFItemLoop(answer.data, 1, hfRun.candidates)
             exc == IF answer.kind = "list" THEN loop.exc
                    ELSE IF answer.kind = "notlist" THEN "RerankProviderError"
                    ELSE answer.kind
             cands == IF answer.kind = "list" THEN loop.cands ELSE hfRun.candidates
         IN hfRun' =
              IF exc = "none"
              THEN [sent EXCEPT !.st = "returned", !.candidates = cands,
                                !.data = answer.data,
                                !.ret = Prefix(SortByRerank(cands), hfIn.topn)]
              ELSE IF HFCaught(exc)
              THEN [sent EXCEPT !.attempt = @ + 1, !.candidates = cands]
              ELSE [sent EXCEPT !.st = "raised", !.exc = exc, !.candidates = cands]
    /\ UNCHANGED <<pipelineVars, embeddingVars, mistralVars, rrfIn, rrfOut, rrfAgain, vectorVars,
                   chunkerVars, tsQuery, tsExpr, hfIn>>

\* reranker_hf.py:87: the loop ran out
HFRerankExhausted ==
    /\ hfRun.st = "loop"
    /\ HFRerankRangeEnds(hfRun, hfIn.settings.rerank_retry_max)
    /\ hfRun' = [hfRun EXCEPT !.st = "raised", !.exc = "RerankProviderError"]
    /\ UNCHANGED <<pipelineVars, embeddingVars, mistralVars, rrfIn, rrfOut, rrfAgain, vectorVars,
                   chunkerVars, tsQuery, tsExpr, hfIn>>

NextHF ==
    \/ HFRerankNotConfigured
    \/ HFRerankBuildRequest
    \/ HFRerankAttempt
    \/ HFRerankExhausted

SpecHF == InitHF /\ [][NextHF]_vars

\* --------------------------------------- MistralReranker.rerank on its own
\* the request failed (reranker_mistral.py:77)
MistralRequestErrors == {"HTTPError", "TimeoutException"}

\* answers the parse block of reranker_mistral.py:82-91 rejects, with the
\* exception each raises there
MistralInvalidAnswers ==
    [body_not_json      |-> "JSONDecodeError",
     no_choices         |-> "KeyError",
     choices_empty      |-> "IndexError",
     no_message         |-> "KeyError",
     no_content         |-> "KeyError",
     content_not_json   |-> "JSONDecodeError",
     no_ranking         |-> "KeyError",
     ranking_not_list   |-> "ValueError"]

\* answers whose JSON nests differently: the body or the parsed content is
\* a list (subscripted with a string), or "content" is null (json.loads
\* of None): TypeError
MistralMisshapenAnswers == {"body_is_list", "content_null", "content_is_list"}

\* except (json.JSONDecodeError, KeyError, ValueError, IndexError)
MistralParseCaught(exc) ==
    exc \in {"JSONDecodeError", "KeyError", "ValueError", "IndexError"}

InitMistral ==
    /\ PipelineAtRest
    /\ IdleEmbedding
    /\ IdleRRF
    /\ IdleVector
    /\ IdleChunker
    /\ IdleTsquery
    /\ IdleHF
    /\ mistralIn \in [settings : [mistral_api_key : {"", "key"}],
                       query : {"q"},
                       candidates : HFCandidateLists,
                       topn : 1..MaxTopn]
    /\ mistralRun = MistralCall("called", mistralIn.candidates)

\* reranker_mistral.py:47-48: API key empty
MistralRerankNotConfigured ==
    /\ mistralRun.st = "called"
    /\ mistralIn.settings.mistral_api_key = ""
    /\ mistralRun' = [mistralRun EXCEPT !.st = "raised", !.exc = "RerankProviderError"]
    /\ UNCHANGED <<pipelineVars, embeddingVars, hfVars, rrfIn, rrfOut, rrfAgain, vectorVars, chunkerVars,
                   tsQuery, tsExpr, mistralIn>>

MistralRerankPosts ==
    /\ mistralRun.st = "called"
    /\ mistralIn.settings.mistral_api_key # ""

\* reranker_mistral.py:66-79: the post or raise_for_status raises
MistralRerankRequestFails ==
    /\ MistralRerankPosts
    /\ \E e \in MistralRequestErrors :
          mistralRun' = [mistralRun EXCEPT !.st = "raised", !.requests = @ + 1,
                                           !.answer = e,
                                           !.exc = "RerankProviderError"]
    /\ UNCHANGED <<pipelineVars, embeddingVars, hfVars, rrfIn, rrfOut, rrfAgain, vectorVars, chunkerVars,
                   tsQuery, tsExpr, mistralIn>>

\* reranker_mistral.py:82-91: the parse block raises; what the except
\* clause lists becomes RerankProviderError, a TypeError leaves as it is
MistralRerankParseFails ==
    /\ MistralRerankPosts
    /\ \E a \in (DOMAIN MistralInvalidAnswers) \cup MistralMisshapenAnswers :
         LET exc == IF a \in MistralMisshapenAnswers THEN "TypeError"
                    ELSE MistralInvalidAnswers[a]
         IN mistralRun' = [mistralRun EXCEPT
                              !.st = "raised", !.requests = @ + 1, !.answer = a,
                              !.exc = IF MistralParseCaught(exc)
                                      THEN "RerankProviderError" ELSE exc]
    /\ UNCHANGED <<pipelineVars, embeddingVars, hfVars, rrfIn, rrfOut, rrfAgain, vectorVars, chunkerVars,
                   tsQuery, tsExpr, mistralIn>>

\* reranker_mistral.py:82-106: "ranking" is a list of at most one element
\* per passage; score map, scores (-inf where the map has none), sort, cut.
\* The loop of 94-98 is outside any try: its exceptions leave as they are.
MistralRerankRanking ==
    /\ MistralRerankPosts
    /\ \E ranking \in SeqsUpTo(MistralRankingItems(Range(ChunkIds(mistralIn.candidates))
                                                     \cup {"c9"}),
                                 Len(mistralIn.candidates)) :
         LET got == [mistralRun EXCEPT !.requests = @ + 1, !.answer = "ranking",
                                       !.ranking = ranking]
             loop == MistralItemLoop(ranking, 1, << >>)
             scored == MistralAssign(mistralRun.candidates, loop.score_map)
         IN mistralRun' =
              IF loop.exc # "none"
              THEN [got EXCEPT !.st = "raised", !.exc = loop.exc]
              ELSE [got EXCEPT !.st = "returned", !.candidates = scored,
                               !.ret = Prefix(SortByRerank(scored), mistralIn.topn)]
    /\ UNCHANGED <<pipelineVars, embeddingVars, hfVars, rrfIn, rrfOut, rrfAgain, vectorVars, chunkerVars,
                   tsQuery, tsExpr, mistralIn>>

NextMistral ==
    \/ MistralRerankNotConfigured
    \/ MistralRerankRequestFails
    \/ MistralRerankParseFails
    \/ MistralRerankRanking

SpecMistral == InitMistral /\ [][NextMistral]_vars

\* ------------------------------------------ EmbeddingService, concurrent calls
\* the calls made on the one EmbeddingService of the process
EmbCallArgs ==
    {[op |-> "embed_text", texts |-> <<t>>, batch_size |-> 1] : t \in EmbTexts}
    \cup {[op |-> "embed_texts", texts |-> ts, batch_size |-> b] :
             ts \in SeqsUpTo(EmbTexts, MaxTexts), b \in {1, DefaultBatchSize}}

\* embedding.py:41: the cache starts empty; the calls are tasks of one
\* event loop, each runs until its next await
InitEmbedding ==
    /\ PipelineAtRest
    /\ IdleRRF
    /\ IdleVector
    /\ IdleChunker
    /\ IdleTsquery
    /\ IdleHF
    /\ IdleMistral
    /\ \E n \in 1..MaxCalls : embIn \in [1..n -> EmbCallArgs]
    /\ embCalls = [p \in DOMAIN embIn |-> EmbCall("start")]
    /\ embCache = << >>
    /\ embWrites = << >>
    /\ embUpstream = << >>

\* embedding.py:57-59: the key is in the cache
EmbedTextHit(p) ==
    /\ embIn[p].op = "embed_text"
    /\ embCalls[p].pc = "start"
    /\ CacheKey(embIn[p].texts[1]) \in DOMAIN embCache
    /\ embCalls' = [embCalls EXCEPT ![p].pc = "done",
                                    ![p].ret = embCache[CacheKey(embIn[p].texts[1])]]
    /\ UNCHANGED <<pipelineVars, mistralVars, hfVars, rrfIn, rrfOut, rrfAgain,
                   vectorVars, chunkerVars, tsQuery, tsExpr, embIn, embCache,
                   embWrites, embUpstream>>

\* embedding.py:57-61: the key is not in the cache; the call suspends in
\* embeddings.create
EmbedTextMiss(p) ==
    /\ embIn[p].op = "embed_text"
    /\ embCalls[p].pc = "start"
    /\ CacheKey(embIn[p].texts[1]) \notin DOMAIN embCache
    /\ embUpstream' = Append(embUpstream, embIn[p].texts)
    /\ embCalls' = [embCalls EXCEPT ![p].pc = "await",
                                    ![p].request = Len(embUpstream) + 1]
    /\ UNCHANGED <<pipelineVars, mistralVars, hfVars, rrfIn, rrfOut, rrfAgain,
                   vectorVars, chunkerVars, tsQuery, tsExpr, embIn, embCache,
                   embWrites>>

\* embedding.py:61-65: the response is in; the key is assigned, whatever
\* the cache holds by now
EmbedTextResponse(p) ==
    /\ embIn[p].op = "embed_text"
    /\ embCalls[p].pc = "await"
    /\ LET embedding == Embedding(embIn[p].texts[1], embCalls[p].request)
           stored == CacheStore([cache |-> embCache, writes |-> embWrites],
                                CacheKey(embIn[p].texts[1]), embedding)
       IN /\ embCache' = stored.cache
          /\ embWrites' = stored.writes
          /\ embCalls' = [embCalls EXCEPT ![p].pc = "done", ![p].ret = embedding]
    /\ UNCHANGED <<pipelineVars, mistralVars, hfVars, rrfIn, rrfOut, rrfAgain,
                   vectorVars, chunkerVars, tsQuery, tsExpr, embIn, embUpstream>>

\* what a call of embed_texts that suspended posts: its texts_to_embed
Posted(call) == IF call.pc = "await" THEN <<call.texts_to_embed>> ELSE << >>

\* embedding.py:78-100: embed_texts from its first line to its first await
\* or to its return
EmbedTextsStart(p) ==
    /\ embIn[p].op = "embed_texts"
    /\ embCalls[p].pc = "start"
    /\ LET call == BatchLoop(embIn[p], embCalls[p], embCache, Len(embUpstream) + 1)
       IN /\ embCalls' = [embCalls EXCEPT ![p] = call]
          /\ embUpstream' = embUpstream \o Posted(call)
    /\ UNCHANGED <<pipelineVars, mistralVars, hfVars, rrfIn, rrfOut, rrfAgain,
                   vectorVars, chunkerVars, tsQuery, tsExpr, embIn, embCache,
                   embWrites>>

\* embedding.py:100-116: the response is in (one vector per text posted, in
\* order; usage counted as one token per text); the keys are assigned, the
\* batch is closed and the loop goes on to the next await or to the return
EmbedTextsResponse(p) ==
    /\ embIn[p].op = "embed_texts"
    /\ embCalls[p].pc = "await"
    /\ LET call == embCalls[p]
           data == [q \in 1..Len(call.texts_to_embed) |->
                       Embedding(call.texts_to_embed[q], call.request)]
           stored == StoreLoop(call.texts_to_embed, call.indices_to_embed, data, 1,
                               [cache |-> embCache, writes |-> embWrites,
                                batch_embeddings |-> call.batch_embeddings])
           closed == [call EXCEPT
                         !.i = @ + embIn[p].batch_size,
                         !.total_tokens = @ + Len(call.texts_to_embed),
                         !.embeddings = @ \o Embeddings(
                                            SortByIndex(stored.batch_embeddings)),
                         !.batch_embeddings = << >>, !.texts_to_embed = << >>,
                         !.indices_to_embed = << >>, !.pc = "start"]
           next == BatchLoop(embIn[p], closed, stored.cache, Len(embUpstream) + 1)
       IN /\ embCache' = stored.cache
          /\ embWrites' = stored.writes
          /\ embCalls' = [embCalls EXCEPT ![p] = next]
          /\ embUpstream' = embUpstream \o Posted(next)
    /\ UNCHANGED <<pipelineVars, mistralVars, hfVars, rrfIn, rrfOut, rrfAgain,
                   vectorVars, chunkerVars, tsQuery, tsExpr, embIn>>

NextEmbedding ==
    \E p \in DOMAIN embIn :
        \/ EmbedTextHit(p)
        \/ EmbedTextMiss(p)
        \/ EmbedTextResponse(p)
        \/ EmbedTextsStart(p)
        \/ EmbedTextsResponse(p)

SpecEmbedding == InitEmbedding /\ [][NextEmbedding]_vars

\* ===================================================================== claims
NoRerankerCalled ==
    /\ rr = IdleReranker
    /\ calls = [primary |-> 0, fallback |-> 0, hf_http |-> 0, mistral_http |-> 0]

Terminated == pc \in {"returned", "raised"}

WithoutRerankScore(list) ==
    [i \in 1..Len(list) |-> [list[i] EXCEPT !.rerank_score = NoneVal]]

\* the RRF-ordered list of the call, cut to rerank_max_candidates and then
\* to rerank_final_topn, as rrf_merge left it
FirstOfRRFOrder ==
    Prefix(Prefix(rrf_merge(kwTask.result, vecTask.result, settings.hybrid_rrf_k),
                  settings.rerank_max_candidates),
           settings.rerank_final_topn)

\* C1: when the primary reranker raised RerankProviderError and the fallback
\* reranker returned a list, retrieve_context returns that very list: the
\* same items in the same order.
C1_FallbackListReturned ==
    (Terminated /\ rr.who = "fallback" /\ rr.st = "returned")
        => (pc = "returned" /\ raised = "none" /\ result = rr.ret)

\* C1 witness: the fallback's list was returned and its order is not RRF order
C1_Witness ==
    /\ pc = "returned"
    /\ rr.who = "fallback"
    /\ rr.st = "returned"
    /\ calls.primary = 1
    /\ Len(result) = 2
    /\ ChunkIds(result) # ChunkIds(FirstOfRRFOrder)

\* C2: when the last reranker called raised RerankProviderError (the primary
\* with no fallback configured, or the fallback after the primary),
\* retrieve_context does not raise and returns the first rerank_final_topn
\* items of the RRF-ordered candidates, in RRF order.
C2_DegradesToRRFOrder ==
    (Terminated /\ rr.st = "rpe")
        => /\ pc = "returned"
           /\ raised = "none"
           /\ WithoutRerankScore(result) = WithoutRerankScore(FirstOfRRFOrder)
           /\ (rr.who = "primary" => get_fallback_reranker(settings) = "None")

\* C2 witness: both rerankers raised RerankProviderError, one of them after it
\* had scored a candidate, and two items came back in RRF order
C2_Witness ==
    /\ pc = "returned"
    /\ rr.st = "rpe"
    /\ rr.who = "fallback"
    /\ Len(result) = 2
    /\ \E i \in 1..Len(candidates) : candidates[i].rerank_score # NoneVal

\* C2 witness of the other case: no fallback configured (name "" or "none")
C2_WitnessNoFallback ==
    /\ pc = "returned"
    /\ rr.st = "rpe"
    /\ rr.who = "primary"
    /\ settings.rerank_fallback_provider = ""
    /\ Len(result) = 2

\* C3: a result degraded to RRF order is the list the disabled path returns:
\* rerank_score is unset on every returned item.
C3_DegradedHasNoRerankScore ==
    (pc = "returned" /\ rr.st = "rpe")
        => /\ result = FirstOfRRFOrder
           /\ \A i \in 1..Len(result) : result[i].rerank_score = NoneVal

\* C4: no failure of the reranking stage leaves a reranker as an exception
\* other than RerankProviderError, and none makes retrieve_context raise.
C4_RerankFailureNeverRaises ==
    /\ rr.st # "exc"
    /\ raised \in {"none", "EmbeddingError", "KeywordStorageError", "VectorStorageError"}

\* C5: with rerank_enabled=false, or with an empty fused list, no reranker is
\* invoked and retrieve_context returns the RRF-ordered list cut to
\* rerank_max_candidates and rerank_final_topn, order unchanged, rerank_score
\* unset on every item.
C5_NoRerankReturnsRRFOrder ==
    /\ ~settings.rerank_enabled => NoRerankerCalled
    /\ (pc \notin {"embed", "gather"} /\ merged = << >>) => NoRerankerCalled
    /\ (Terminated /\ raised = "none" /\ (~settings.rerank_enabled \/ merged = << >>))
          => /\ pc = "returned"
             /\ result = FirstOfRRFOrder
             /\ \A i \in 1..Len(result) : result[i].rerank_score = NoneVal

\* C5 witness: reranking disabled, two fused candidates, one returned
C5_Witness ==
    /\ pc = "returned"
    /\ ~settings.rerank_enabled
    /\ Len(merged) = 2
    /\ Len(result) = 1
    /\ result[1] = merged[1]

\* C5 witness of the other case: reranking enabled, nothing to rerank
C5_WitnessEmpty ==
    /\ pc = "returned"
    /\ settings.rerank_enabled
    /\ get_reranker(settings) # "None"
    /\ merged = << >>
    /\ result = << >>

\* C6: every statement keyword_search executes and every filter vector_search
\* gives to Qdrant carries an exact match on the caller's tenant id, whatever
\* the collection argument; no chunk in the results of either search or in
\* the result of retrieve_context belongs to another tenant.
C6_TenantIsolation ==
    /\ \A i \in 1..Len(dbQueries) :
          dbQueries[i].tenantFilter /\ dbQueries[i].tenant = tenant_id
    /\ \A i \in 1..Len(qdrantQueries) :
          qdrantQueries[i].tenantFilter /\ qdrantQueries[i].tenant = tenant_id
    /\ \A list \in {kwTask.result, vecTask.result, merged, candidates, result} :
          \A i \in 1..Len(list) : TenantOfChunk(list[i].chunk_id) = tenant_id

\* C6 witness: a call with a collection list returned chunks found by both
\* searches
C6_Witness ==
    /\ pc = "returned"
    /\ collection_ids = CollectionList({"colA"})
    /\ Len(dbQueries) = 1
    /\ Len(qdrantQueries) = 1
    /\ kwTask.result # << >>
    /\ vecTask.result # << >>
    /\ result # << >>

\* C8: fusion and everything after it happen only once both searches have
\* completed; once a search has raised, retrieve_context raises the first
\* search error, and there is no fused list, no result and no reranker call.
C8_JoinBeforeFusion ==
    /\ (pc \in {"primary", "fallback", "returned"} \/ merged # << >>)
          => (kwTask.st = "done" /\ vecTask.st = "done")
    /\ (kwTask.st = "failed" \/ vecTask.st = "failed")
          => /\ pc \in {"gather", "raised"}
             /\ merged = << >>
             /\ result = << >>
             /\ NoRerankerCalled
             /\ pc = "raised" =>
                   /\ raised \in {"KeywordStorageError", "VectorStorageError"}
                   /\ raised = "KeywordStorageError" => kwTask.st = "failed"
                   /\ raised = "VectorStorageError" => vecTask.st = "failed"

\* C8 witness: the vector search raised while the keyword search had results,
\* and retrieve_context raised
C8_Witness ==
    /\ pc = "raised"
    /\ raised = "VectorStorageError"
    /\ kwTask.st = "done"
    /\ Len(kwTask.result) = 2
    /\ vecTask.st = "failed"

\* C8 witness of the concurrency: both searches in flight at once
C8_WitnessBothRunning ==
    /\ pc = "gather"
    /\ kwTask.st = "running"
    /\ vecTask.st = "running"

\* C9: the primary reranker is called at most once and first; the fallback is
\* called at most once, and only at a moment when the primary's call has
\* ended with RerankProviderError; never after the primary returned, never
\* with reranking disabled.
C9_RerankersSequential ==
    /\ [](/\ calls.primary <= 1
          /\ calls.fallback <= 1
          /\ calls.fallback = 1 => calls.primary = 1
          /\ ~settings.rerank_enabled => calls.primary = 0 /\ calls.fallback = 0
          /\ (rr.who = "primary" /\ rr.st = "returned") => calls.fallback = 0)
    /\ [][calls'.primary # calls.primary =>
             /\ calls.primary = 0 /\ calls.fallback = 0 /\ rr.who = "none"
             /\ rr'.who = "primary"]_vars
    /\ [][calls'.fallback # calls.fallback =>
             /\ rr.who = "primary" /\ rr.st = "rpe"
             /\ rr'.who = "fallback"]_vars
    /\ [][rr.who = "fallback" => rr'.who = "fallback"]_vars

\* C9 witness: the fallback was called after the primary had made a request
C9_Witness ==
    /\ pc = "returned"
    /\ calls.primary = 1
    /\ calls.fallback = 1
    /\ calls.hf_http >= 1
    /\ calls.mistral_http = 1

\* the first rerank_max_candidates records of the fused list, as fused
FirstCandidates ==
    WithoutRerankScore(Prefix(merged, settings.rerank_max_candidates))

NoIdTwice(list) ==
    \A i, j \in 1..Len(list) : i # j => list[i].chunk_id # list[j].chunk_id

\* every record of list is one of the first candidates
FromFirstCandidates(list) ==
    \A i \in 1..Len(list) :
        \E j \in 1..Len(FirstCandidates) :
            [list[i] EXCEPT !.rerank_score = NoneVal] = FirstCandidates[j]

\* C29: whenever retrieve_context returns, the list has at most
\* rerank_final_topn items, no chunk id twice, and only records of the first
\* rerank_max_candidates entries of the fused list; a reranker is given
\* those entries and no more, and what it returns holds no other record and
\* no record twice.
C29_ResultWithinCandidates ==
    /\ pc = "returned" =>
          /\ Len(result) <= settings.rerank_final_topn
          /\ NoIdTwice(result)
          /\ FromFirstCandidates(result)
    /\ rr.st # "idle" =>
          /\ Len(candidates) <= settings.rerank_max_candidates
          /\ WithoutRerankScore(candidates) = FirstCandidates
          /\ NoIdTwice(candidates)
          /\ NoIdTwice(rr.ret)
          /\ FromFirstCandidates(rr.ret)
          /\ Len(rr.ret) <= settings.rerank_final_topn

\* the fused list is longer than rerank_max_candidates and the primary
\* reranker returned
C29_Witness ==
    /\ pc = "returned"
    /\ outcome = "primary"
    /\ Len(merged) = 2
    /\ settings.rerank_max_candidates = 1
    /\ Len(candidates) = 1
    /\ Len(result) = 1

\* two candidates, one returned: the one the fallback reranker put first
C29_WitnessFallback ==
    /\ pc = "returned"
    /\ outcome = "fallback"
    /\ Len(candidates) = 2
    /\ settings.rerank_final_topn = 1
    /\ Len(result) = 1
    /\ result[1].chunk_id = candidates[2].chunk_id

\* ------------------------------------------------- claims on keyword_search
\* C14: with a null collection argument and with an empty collection list
\* alike, the statement keyword_search executes has no collection filter and
\* the rows it can match are all the rows of the tenant.
C14_EmptyCollectionsUnfiltered ==
    (collection_ids.none \/ collection_ids.ids = {}) =>
        \A i \in 1..Len(dbQueries) :
            /\ ~dbQueries[i].collectionFilter
            /\ KeywordRows(dbQueries[i]) = {r \in StoreChunks : r.tenant = tenant_id}

AlnumChars == {"a", "B", "7"}

C15_WitnessBlank ==
    /\ kwTask.st = "done"
    /\ query = <<" ", " ">>
    /\ dbQueries = << >>

\* C15 witness of the other side: a token is left among unsafe characters
\* and one statement has been executed
C15_WitnessOneQuery ==
    /\ kwTask.st = "done"
    /\ query = <<"'", "a", "|">>
    /\ Len(dbQueries) = 1
    /\ kwTask.result # << >>

\* -------------------------------------------------- claims on vector_search
\* the stored chunks that pass the tenant and collection filters of the call
PassFilters ==
    {r \in StoreChunks :
        /\ r.tenant = vecIn.tenant
        /\ vecIn.collections.none \/ r.collection \in vecIn.collections.ids}

\* C16: vector_search returns the topk most similar of the chunks that pass
\* the tenant and collection filters, whatever their similarity (zero and
\* negative included), at most topk of them, most similar first.
C16_NoScoreThreshold ==
    ( /\ vecOut.done
      /\ ~vecOut.raised
      /\ vecIn.collections.none \/ vecIn.collections.ids # {} )
    => LET ids == Range(ChunkIds(vecOut.chunks)) IN
         /\ Len(vecOut.chunks) = Min(vecIn.topk, Cardinality(PassFilters))
         /\ ids \subseteq {r.id : r \in PassFilters}
         /\ \A i \in 1..(Len(vecOut.scores) - 1) : vecOut.scores[i] >= vecOut.scores[i + 1]
         /\ \A r \in PassFilters :
               r.id \notin ids =>
                  \A i \in 1..Len(vecOut.scores) : vecIn.similarity[r.id] <= vecOut.scores[i]

\* ------------------------------------------------------ claims on Chunker
\* C17: every chunk chunk_text makes by accumulating sentences has
\* token_count <= chunk_size, the windows that start with carried-over
\* sentences included.
C17_WindowWithinChunkSize ==
    chunkOut.done =>
        \A i \in 1..Len(chunkOut.chunks) :
            chunkOut.chunks[i].kind = "sentences" =>
                chunkOut.chunks[i].token_count <= chunkIn.chunker.chunk_size

RECURSIVE TokensOf(_, _)
TokensOf(tokens, positions) ==
    IF positions = << >> THEN 0
    ELSE tokens[Head(positions)] + TokensOf(tokens, Tail(positions))

\* the sentences of chunk b that chunk a, emitted just before, already holds
CarriedOver(a, b) ==
    LET InA(x) == x <= a.sentences[Len(a.sentences)]
    IN SelectSeq(b.sentences, InA)

IsSuffixOf(suffix, seq) ==
    /\ Len(suffix) <= Len(seq)
    /\ SubSeq(seq, Len(seq) - Len(suffix) + 1, Len(seq)) = suffix

\* C18: when a window is flushed because the next sentence overflows it, the
\* next window starts with a suffix of the flushed window, in order, of at
\* most chunk_overlap tokens, the longest such suffix, and goes on with the
\* sentence that overflowed; two consecutive windows cut out of one long
\* sentence share at most chunk_overlap tokens.
C18_OverlapIsLongestSuffix ==
    chunkOut.done =>
        \A i \in 1..(Len(chunkOut.chunks) - 1) :
            LET a == chunkOut.chunks[i]
                b == chunkOut.chunks[i + 1]
                tokens == chunkIn.text.sentences
                overlap == chunkIn.chunker.chunk_overlap
            IN /\ (a.kind = "sentences" /\ b.kind = "sentences") =>
                    LET seeded == CarriedOver(a, b)
                        lastA == a.sentences[Len(a.sentences)]
                    IN /\ IsSuffixOf(seeded, a.sentences)
                       /\ TokensOf(tokens, seeded) <= overlap
                       /\ Len(seeded) < Len(a.sentences) =>
                             TokensOf(tokens, seeded)
                               + tokens[a.sentences[Len(a.sentences) - Len(seeded)]] > overlap
                       /\ Len(b.sentences) > Len(seeded)
                       /\ b.sentences[Len(seeded) + 1] = lastA + 1
                       /\ SubSeq(b.sentences, 1, Len(seeded)) = seeded
               /\ (a.kind = "hard" /\ b.kind = "hard" /\ a.sentences = b.sentences) =>
                    /\ b.first > a.first
                    /\ a.last - b.first <= overlap

\* C18 witness: the window of sentences 1 and 2 is flushed and sentence 2
\* alone fits the overlap
C18_Witness ==
    /\ chunkOut.done
    /\ chunkIn.chunker = [chunk_size |-> 3, chunk_overlap |-> 1]
    /\ chunkIn.text = Text(<<1, 1, 2>>)
    /\ Len(chunkOut.chunks) = 2
    /\ chunkOut.chunks[1].sentences = <<1, 2>>
    /\ chunkOut.chunks[2].sentences = <<2, 3>>

\* C18 witness of two windows of a long sentence sharing chunk_overlap tokens
C18_WitnessHard ==
    /\ chunkOut.done
    /\ chunkIn.chunker.chunk_overlap = 2
    /\ Len(chunkOut.chunks) >= 2
    /\ chunkOut.chunks[1].kind = "hard"
    /\ chunkOut.chunks[2].kind = "hard"
    /\ chunkOut.chunks[1].last - chunkOut.chunks[2].first = 2

\* a page that chunk_text returns nothing for
BlankPage(page) == page.content.kind \in {"empty", "whitespace"}

\* C19: the chunks chunk_document returns carry chunk_index 0, 1, ..., n-1 in
\* list order over the whole document and follow the page order; a page that
\* is empty or whitespace only gives no chunk and no gap, and a document of
\* such pages only gives the empty list.
C19_GlobalChunkIndex ==
    docOut.done =>
        LET chunks == docOut.chunks
            pages == docIn.doc.pages
        IN /\ \A i \in 1..Len(chunks) : chunks[i].chunk_index = i - 1
           /\ \A i \in 1..(Len(chunks) - 1) : chunks[i].page_number <= chunks[i + 1].page_number
           /\ \A p \in 1..Len(pages) :
                 LET ofPage == {i \in 1..Len(chunks) : chunks[i].page_number = pages[p].page_number}
                 IN /\ BlankPage(pages[p]) => ofPage = {}
                    /\ Cardinality(ofPage)
                         = Len(chunk_text(docIn.chunker, pages[p].content, pages[p].page_number))
                    /\ ~BlankPage(pages[p]) => ofPage # {}
           /\ (\A p \in 1..Len(pages) : BlankPage(pages[p])) => chunks = << >>

\* C19 witness: a whitespace page between two pages that each give chunks,
\* the second page's chunks numbered on from the first page's
C19_Witness ==
    /\ docOut.done
    /\ Len(docIn.doc.pages) = 3
    /\ docIn.doc.pages[1].content = Text(<<1, MaxChunkSize>>)
    /\ docIn.doc.pages[2].content = WhitespaceText
    /\ docIn.doc.pages[3].content = Text(<<MaxChunkSize + 1>>)
    /\ docIn.chunker.chunk_size = 2
    /\ Len(docOut.chunks) >= 4
    /\ docOut.chunks[Len(docOut.chunks)].page_number = 3
    /\ docOut.chunks[Len(docOut.chunks)].chunk_index = Len(docOut.chunks) - 1

\* C19 witness of a document of blank pages only
C19_WitnessBlank ==
    /\ docOut.done
    /\ Len(docIn.doc.pages) = 2
    /\ docIn.doc.pages[1].content = EmptyText
    /\ docIn.doc.pages[2].content = WhitespaceText
    /\ docOut.chunks = << >>

\* C20: a sentence of n > chunk_size tokens gives the windows
\* tokens[i : i + chunk_size] for i = 0, s, 2s, ... < n, s = chunk_size -
\* chunk_overlap, one after the other in the output and in this order, each
\* of at most chunk_size tokens, covering every token; every earlier sentence
\* is in a chunk emitted before the first window.
C20_HardSplitWindows ==
    chunkOut.done =>
        LET chunks == chunkOut.chunks
            tokens == chunkIn.text.sentences
            size == chunkIn.chunker.chunk_size
            s == chunkIn.chunker.chunk_size - chunkIn.chunker.chunk_overlap
        IN \A j \in 1..Len(tokens) :
             tokens[j] > size =>
               LET n == tokens[j]
                   starts == {i \in 0..(n - 1) : i % s = 0}
                   ofJ == {c \in 1..Len(chunks) :
                              chunks[c].kind = "hard" /\ chunks[c].sentences = <<j>>}
               IN /\ Cardinality(ofJ) = Cardinality(starts)
                  /\ \E a \in 1..Len(chunks) :
                        /\ ofJ = a..(a + Cardinality(starts) - 1)
                        /\ \A m \in 0..(Cardinality(starts) - 1) :
                              /\ chunks[a + m].first = m * s
                              /\ chunks[a + m].last = Min(m * s + size, n)
                              /\ chunks[a + m].token_count = chunks[a + m].last - m * s
                              /\ chunks[a + m].token_count <= size
                        /\ \A earlier \in 1..(j - 1) :
                              \E c \in 1..(a - 1) : earlier \in Range(chunks[c].sentences)
                  /\ \A t \in 0..(n - 1) :
                        \E c \in ofJ : chunks[c].first <= t /\ t < chunks[c].last

\* C20 witness: one short sentence, then a sentence of 4 tokens cut with
\* chunk_size 2 and chunk_overlap 1 into 4 windows after the first chunk
C20_Witness ==
    /\ chunkOut.done
    /\ chunkIn.chunker = [chunk_size |-> 2, chunk_overlap |-> 1]
    /\ chunkIn.text = Text(<<1, 4>>)
    /\ Len(chunkOut.chunks) = 5
    /\ chunkOut.chunks[1].kind = "sentences"
    /\ chunkOut.chunks[2].kind = "hard"
    /\ chunkOut.chunks[5].first = 3

\* chunks m and m + 1 are two windows in a row cut out of one long sentence
HardSplitNeighbours(chunks, m) ==
    /\ chunks[m].kind = "hard"
    /\ chunks[m + 1].kind = "hard"
    /\ chunks[m].sentences = chunks[m + 1].sentences
    /\ chunks[m].first < chunks[m + 1].first

\* C30: of two windows in a row cut out of a long sentence, the second holds
\* a token the first does not hold: tokens[first : last] of the second ends
\* beyond the end of the first.
C30_HardSplitWindowAdvances ==
    chunkOut.done =>
        \A m \in 1..(Len(chunkOut.chunks) - 1) :
            HardSplitNeighbours(chunkOut.chunks, m) =>
                chunkOut.chunks[m + 1].last > chunkOut.chunks[m].last

\* --------------------------------------------------------- claims on rrf_merge
\* sum of 1/(k+p) over the positions p, from p on, at which cid is in the list
RECURSIVE ReciprocalRankSum(_, _, _, _)
ReciprocalRankSum(list, cid, k, p) ==
    IF p > Len(list) THEN 0
    ELSE (IF list[p].chunk_id = cid THEN ScoreUnit(k) \div (k + p) ELSE 0)
         + ReciprocalRankSum(list, cid, k, p + 1)

\* C10: every chunk id of the inputs is in the output of rrf_merge with
\* fused_score the sum of 1/(k+r) over every position r (1-based) at which it
\* appears in either list; an id in both lists scores strictly more than
\* either of its single contributions.
C10_FusedScoreFormula ==
    rrfOut.done =>
      \A cid \in Range(ChunkIds(rrfIn.kw)) \cup Range(ChunkIds(rrfIn.vec)) :
        LET expected == ReciprocalRankSum(rrfIn.kw, cid, rrfIn.k, 1)
                        + ReciprocalRankSum(rrfIn.vec, cid, rrfIn.k, 1)
        IN /\ \E i \in 1..Len(rrfOut.merged) :
                 /\ rrfOut.merged[i].chunk_id = cid
                 /\ rrfOut.merged[i].fused_score = Num(expected)
           /\ \A r1 \in 1..Len(rrfIn.kw), r2 \in 1..Len(rrfIn.vec) :
                 (rrfIn.kw[r1].chunk_id = cid /\ rrfIn.vec[r2].chunk_id = cid)
                    => \A i \in 1..Len(rrfOut.merged) :
                          rrfOut.merged[i].chunk_id = cid =>
                             /\ rrfOut.merged[i].fused_score.val
                                   > ScoreUnit(rrfIn.k) \div (rrfIn.k + r1)
                             /\ rrfOut.merged[i].fused_score.val
                                   > ScoreUnit(rrfIn.k) \div (rrfIn.k + r2)

\* C10 witness: one id at rank 1 of the keyword list and rank 2 of the vector
\* list, another id in the vector list only
C10_Witness ==
    /\ rrfOut.done
    /\ Len(rrfIn.kw) = 1
    /\ Len(rrfIn.vec) = 2
    /\ rrfIn.kw[1].chunk_id = "c1"
    /\ rrfIn.vec[1].chunk_id = "c2"
    /\ rrfIn.vec[2].chunk_id = "c1"
    /\ Len(rrfOut.merged) = 2

InputIds == Range(ChunkIds(rrfIn.kw)) \cup Range(ChunkIds(rrfIn.vec))

ExpectedScore(cid) ==
    ReciprocalRankSum(rrfIn.kw, cid, rrfIn.k, 1)
    + ReciprocalRankSum(rrfIn.vec, cid, rrfIn.k, 1)

\* C11: the output of rrf_merge holds every distinct chunk id of the two
\* lists exactly once and nothing else, in non-increasing order of fused
\* score, each record carrying in fused_score the score computed for its id;
\* two empty lists give the empty list.
C11_MergeOutput ==
    rrfOut.done =>
      LET out == rrfOut.merged IN
        /\ Range(ChunkIds(out)) = InputIds
        /\ Len(out) = Cardinality(InputIds)
        /\ \A i \in 1..Len(out) : out[i].fused_score = Num(ExpectedScore(out[i].chunk_id))
        /\ \A i \in 1..(Len(out) - 1) : out[i].fused_score.val >= out[i + 1].fused_score.val
        /\ (rrfIn.kw = << >> /\ rrfIn.vec = << >>) => out = << >>

\* C11 witness: an id twice in one list and once in the other, and a second
\* id that scores less though it comes first in the keyword list
C11_Witness ==
    /\ rrfOut.done
    /\ ChunkIds(rrfIn.kw) = <<"c2", "c1">>
    /\ ChunkIds(rrfIn.vec) = <<"c1", "c1">>
    /\ ChunkIds(rrfOut.merged) = <<"c1", "c2">>

\* C11 witness of the empty case
C11_WitnessEmpty ==
    /\ rrfOut.done
    /\ rrfIn.kw = << >>
    /\ rrfIn.vec = << >>
    /\ rrfOut.merged = << >>

\* position of the first record with this id in the keyword list followed
\* by the vector list
FirstAppearance(cid) ==
    LET all == ChunkIds(rrfIn.kw) \o ChunkIds(rrfIn.vec)
    IN CHOOSE i \in 1..Len(all) : all[i] = cid /\ \A j \in 1..(i - 1) : all[j] # cid

FusedScores(list) == [i \in 1..Len(list) |-> list[i].fused_score]

\* C12: a second call of rrf_merge with the same lists and the same k returns
\* the same chunk-id order and the same fused scores; ids of equal fused score
\* are ordered by first appearance, keyword list before vector list; keyword
\* hits [c1,c2,c3] and vector hits [c1,c4,c5] with k = 60 give c1, c2, c4,
\* c3, c5 with fused_score(c1) = 2/61.
C12_Deterministic ==
    /\ rrfAgain.done =>
          /\ ChunkIds(rrfAgain.merged) = ChunkIds(rrfOut.merged)
          /\ FusedScores(rrfAgain.merged) = FusedScores(rrfOut.merged)
    /\ rrfOut.done =>
          \A i, j \in 1..Len(rrfOut.merged) :
             (i < j /\ rrfOut.merged[i].fused_score = rrfOut.merged[j].fused_score)
                => FirstAppearance(rrfOut.merged[i].chunk_id)
                      < FirstAppearance(rrfOut.merged[j].chunk_id)
    /\ (rrfOut.done /\ rrfIn = FusionExample) =>
          /\ ChunkIds(rrfOut.merged) = <<"c1", "c2", "c4", "c3", "c5">>
          /\ rrfOut.merged[1].fused_score.kind = "num"
          /\ rrfOut.merged[1].fused_score.val * (DefaultRRFK + 1) = 2 * ScoreUnit(DefaultRRFK)

\* C12 witness: the example, merged twice
C12_Witness ==
    /\ rrfAgain.done
    /\ rrfIn = FusionExample
    /\ Len(rrfAgain.merged) = 5
    /\ rrfOut.merged[2].fused_score = rrfOut.merged[3].fused_score

\* C12 witness of a tie between an id of the vector list and a later id of
\* the keyword list
C12_WitnessTie ==
    /\ rrfAgain.done
    /\ ChunkIds(rrfIn.kw) = <<"c1", "c2">>
    /\ ChunkIds(rrfIn.vec) = <<"c3">>
    /\ ChunkIds(rrfOut.merged) = <<"c1", "c3", "c2">>
    /\ rrfOut.merged[1].fused_score = rrfOut.merged[2].fused_score

\* the records of the list with this id
RecordsOf(list, cid) == {i \in 1..Len(list) : list[i].chunk_id = cid}

\* the list with every filename erased
WithoutFilenames(list) == [i \in 1..Len(list) |-> [list[i] EXCEPT !.document_filename = ""]]

\* C13: when a chunk id has one record in each list and exactly one of the
\* two has a non-empty document_filename, the output record of the id has
\* that filename, whichever list it comes from; the filenames change no
\* fused score.
C13_FilenameKept ==
    rrfOut.done =>
      /\ \A cid \in InputIds :
            \A a \in 1..Len(rrfIn.kw), b \in 1..Len(rrfIn.vec) :
               ( /\ RecordsOf(rrfIn.kw, cid) = {a}
                 /\ RecordsOf(rrfIn.vec, cid) = {b}
                 /\ (rrfIn.kw[a].document_filename = "") # (rrfIn.vec[b].document_filename = "") )
               => \A i \in 1..Len(rrfOut.merged) :
                     rrfOut.merged[i].chunk_id = cid =>
                        /\ rrfOut.merged[i].document_filename # ""
                        /\ rrfOut.merged[i].document_filename
                              \in {rrfIn.kw[a].document_filename, rrfIn.vec[b].document_filename}
      /\ LET plain == rrf_merge(WithoutFilenames(rrfIn.kw), WithoutFilenames(rrfIn.vec), rrfIn.k)
         IN /\ ChunkIds(plain) = ChunkIds(rrfOut.merged)
            /\ FusedScores(plain) = FusedScores(rrfOut.merged)

\* C13 witness: c1 has its filename in the keyword list only, c2 in the
\* vector list only
C13_Witness ==
    /\ rrfOut.done
    /\ Len(rrfIn.kw) = 2
    /\ Len(rrfIn.vec) = 2
    /\ rrfIn.kw[1].chunk_id = "c1" /\ rrfIn.kw[1].document_filename = "f.pdf"
    /\ rrfIn.kw[2].chunk_id = "c2" /\ rrfIn.kw[2].document_filename = ""
    /\ rrfIn.vec[1].chunk_id = "c1" /\ rrfIn.vec[1].document_filename = ""
    /\ rrfIn.vec[2].chunk_id = "c2" /\ rrfIn.vec[2].document_filename = "f.pdf"
    /\ \A i \in 1..Len(rrfOut.merged) : rrfOut.merged[i].document_filename = "f.pdf"

NoRepeatedId(list) ==
    \A i, j \in 1..Len(list) : i # j => list[i].chunk_id # list[j].chunk_id

InList(cid, list) == \E i \in 1..Len(list) : list[i].chunk_id = cid

InBoth(cid) == InList(cid, rrfIn.kw) /\ InList(cid, rrfIn.vec)

\* every chunk of both lists scores higher than, and stands ahead of, every
\* chunk of one list only
OverlapAhead ==
    \A i, j \in 1..Len(rrfOut.merged) :
        (/\ InBoth(rrfOut.merged[i].chunk_id)
         /\ ~InBoth(rrfOut.merged[j].chunk_id)) =>
            /\ rrfOut.merged[i].fused_score.val > rrfOut.merged[j].fused_score.val
            /\ i < j

\* C28 as stated: for every k >= 1 and every pair of lists without repeated
\* ids inside a list, a chunk of both lists scores higher than, and is
\* ranked ahead of, every chunk of one list only.
C28_OverlapAlwaysAhead ==
    (/\ rrfOut.done
     /\ rrfIn.k >= 1
     /\ NoRepeatedId(rrfIn.kw)
     /\ NoRepeatedId(rrfIn.vec)) => OverlapAhead

\* C28, amended: the same for lists of at most k + 1 hits each (2/(k+r) >
\* 1/(k+1) needs r < k + 2); at rank k + 2 in both lists a chunk only ties
\* with the first hit of one list.
C28_OverlapAheadInShortLists ==
    (/\ rrfOut.done
     /\ rrfIn.k >= 1
     /\ NoRepeatedId(rrfIn.kw)
     /\ NoRepeatedId(rrfIn.vec)
     /\ Len(rrfIn.kw) <= rrfIn.k + 1
     /\ Len(rrfIn.vec) <= rrfIn.k + 1) => OverlapAhead

\* the shared chunk is last in both lists and comes out first
C28_Witness ==
    /\ rrfOut.done
    /\ rrfIn.k = DefaultRRFK
    /\ ChunkIds(rrfIn.kw) = <<"c1", "c2", "c3">>
    /\ ChunkIds(rrfIn.vec) = <<"c4", "c5", "c3">>
    /\ ChunkIds(rrfOut.merged) = <<"c3", "c1", "c4", "c2", "c5">>

\* k = 1: the shared chunk, third in both lists, ties with the first hit of
\* each list and comes out behind the first keyword hit
C28_WitnessTie ==
    /\ rrfOut.done
    /\ rrfIn.k = 1
    /\ ChunkIds(rrfIn.kw) = <<"c1", "c2", "c3">>
    /\ ChunkIds(rrfIn.vec) = <<"c4", "c5", "c3">>
    /\ ChunkIds(rrfOut.merged) = <<"c1", "c3", "c4", "c2", "c5">>

\* -------------------------------------------------- claims on the tsquery
LowerAlnum == {"a", "b", "7"}

\* position i of expr lies in an occurrence of " | "
InOrSeparator(expr, i) ==
    \E j \in (i - 2)..i :
        /\ j >= 1
        /\ j + 2 <= Len(expr)
        /\ SubSeq(expr, j, j + 2) = OrSeparator

\* C7: the expression keyword_search embeds is made only of lower-cased
\* letters and digits and of the separator " | ": no other character of the
\* query reaches it.
C7_OnlyAlnumInExpression ==
    tsExpr.done =>
        \A i \in 1..Len(tsExpr.expr) :
            tsExpr.expr[i] \in LowerAlnum \/ InOrSeparator(tsExpr.expr, i)

\* ------------------------------------------- claims on HFEndpointReranker
\* C21: with the base URL empty, rerank raises RerankProviderError without
\* posting anything, whatever rerank_retry_max is, and leaves every candidate
\* as it was given.
C21_UnconfiguredRaisesWithoutRequest ==
    (hfIn.settings.hf_rerank_url = "" /\ hfRun.st # "called") =>
        /\ hfRun.st = "raised"
        /\ hfRun.exc = "RerankProviderError"
        /\ hfRun.requests = << >>
        /\ hfRun.answers = << >>
        /\ hfRun.candidates = hfIn.candidates

C21_Witness ==
    /\ hfIn.settings.hf_rerank_url = ""
    /\ hfIn.settings.rerank_retry_max = MaxRetry
    /\ Len(hfIn.candidates) = 2
    /\ hfRun.st = "raised"

\* every item is {"index": i, "score": s} with 0 <= i < n, no index twice
DistinctInRangeIndices(data, n) ==
    /\ \A p \in 1..Len(data) :
          data[p].kind = "ok" /\ 0 <= data[p].index /\ data[p].index < n
    /\ \A p, q \in 1..Len(data) : p # q => data[p].index # data[q].index

\* ret holds Min(topn, n) distinct positions of cands, by descending score
\* (no score counts as 0), and no position left out scores higher
IsTopByScore(ret, cands, topn) ==
    /\ Len(ret) = Min(topn, Len(cands))
    /\ \E pos \in [1..Len(ret) -> 1..Len(cands)] :
          /\ \A i, j \in 1..Len(ret) : i # j => pos[i] # pos[j]
          /\ \A i \in 1..Len(ret) : ret[i] = cands[pos[i]]
          /\ \A i, j \in 1..Len(ret) :
                i < j => RerankKey(cands[pos[i]]) >= RerankKey(cands[pos[j]])
          /\ \A i \in 1..Len(ret) : \A q \in 1..Len(cands) :
                (\A j \in 1..Len(ret) : pos[j] # q) =>
                    RerankKey(cands[pos[i]]) >= RerankKey(cands[q])

\* C22: when the list rerank returns on has distinct in-range indices, the
\* candidate at position i of the submitted list carries the score of the
\* item whose index is i, wherever that item stands in the response; a
\* candidate no item names gets none from it; and the return value is the
\* candidates by descending score, cut to topn.
C22_ScoreByIndex ==
    (/\ hfRun.st = "returned"
     /\ DistinctInRangeIndices(hfRun.data, Len(hfIn.candidates))) =>
        /\ \A p \in 1..Len(hfRun.data) :
              hfRun.candidates[hfRun.data[p].index + 1] =
                  [hfIn.candidates[hfRun.data[p].index + 1]
                      EXCEPT !.rerank_score = Num(hfRun.data[p].score)]
        /\ \A i \in 1..Len(hfIn.candidates) :
              (/\ Len(hfRun.answers) = 1
               /\ \A p \in 1..Len(hfRun.data) : hfRun.data[p].index # i - 1) =>
                  hfRun.candidates[i] = hfIn.candidates[i]
        /\ IsTopByScore(hfRun.ret, hfRun.candidates, hfIn.topn)

\* the response names the second text first and gives it the lower score
C22_Witness ==
    /\ hfRun.st = "returned"
    /\ Len(hfIn.candidates) = 2
    /\ hfIn.topn = 2
    /\ Len(hfRun.data) = 2
    /\ hfRun.data[1] = [kind |-> "ok", index |-> 1, score |-> 1]
    /\ hfRun.data[2] = [kind |-> "ok", index |-> 0, score |-> 2]
    /\ ChunkIds(hfRun.ret) = ChunkIds(hfIn.candidates)

\* C23: a response that is not a list makes rerank raise RerankProviderError
\* right after the request that got it: it is the last request of the call,
\* even with attempts left.
C23_NotListRaisesAtOnce ==
    \A i \in 1..Len(hfRun.answers) :
        hfRun.answers[i] = "notlist" =>
            /\ i = Len(hfRun.answers)
            /\ Len(hfRun.requests) = i
            /\ hfRun.st = "raised"
            /\ hfRun.exc = "RerankProviderError"

C23_Witness ==
    /\ hfIn.settings.rerank_retry_max > 0
    /\ hfRun.answers = <<"notlist">>
    /\ hfRun.st = "raised"

TransportErrors == {"HTTPError", "TimeoutException"}

\* C26: when every request fails with a transport or timeout error, rerank
\* makes exactly 1 + rerank_retry_max requests, each with the query and the
\* texts of the call, and raises RerankProviderError; a list response that
\* is well formed is the last answer of the call, and rerank returns on it.
C26_RetryBounded ==
    /\ (/\ hfRun.st \in {"returned", "raised"}
        /\ hfIn.settings.hf_rerank_url # ""
        /\ \A i \in 1..Len(hfRun.answers) : hfRun.answers[i] \in TransportErrors) =>
           /\ hfRun.st = "raised"
           /\ hfRun.exc = "RerankProviderError"
           /\ Len(hfRun.requests) = 1 + hfIn.settings.rerank_retry_max
    /\ Len(hfRun.requests) <= 1 + hfIn.settings.rerank_retry_max
    /\ \A i \in 1..Len(hfRun.requests) :
          hfRun.requests[i] = [query |-> hfIn.query,
                               texts |-> ChunkIds(hfIn.candidates)]
    /\ \A i \in 1..Len(hfRun.answers) :
          hfRun.answers[i] = "list" =>
              /\ i = Len(hfRun.answers)
              /\ Len(hfRun.requests) = i
              /\ hfRun.st = "returned"

C26_Witness ==
    /\ hfIn.settings.rerank_retry_max = MaxRetry
    /\ Len(hfIn.candidates) = 2
    /\ hfRun.st = "raised"
    /\ Len(hfRun.answers) = 1 + MaxRetry
    /\ \A i \in 1..Len(hfRun.answers) : hfRun.answers[i] \in TransportErrors

C26_WitnessList ==
    /\ hfRun.st = "returned"
    /\ hfIn.settings.rerank_retry_max = MaxRetry
    /\ hfRun.answers = <<"list">>

\* ---------------------------------------------- claims on MistralReranker
\* the chunk ids the entries of a ranking name
EntryIds(ranking) ==
    {ranking[p].chunk_id : p \in {q \in 1..Len(ranking) :
                                     ranking[q].kind \in {"ok", "noscore"}}}

AbsentFromRanking(c) == c.chunk_id \notin EntryIds(mistralRun.ranking)

InReturn(c) == \E j \in 1..Len(mistralRun.ret) : mistralRun.ret[j] = c

\* C24 as stated: a candidate whose id is absent from the ranking gets
\* -infinity, comes after every candidate with an entry, and is in the list
\* rerank returns, for every topn and every number of candidates.
C24_AbsentNeverDropped ==
    mistralRun.st = "returned" =>
        \A i \in 1..Len(mistralRun.candidates) :
            AbsentFromRanking(mistralRun.candidates[i]) =>
                /\ mistralRun.candidates[i].rerank_score = NegInf
                /\ InReturn(mistralRun.candidates[i])

\* C24, amended: a candidate whose id is absent from the ranking gets
\* -infinity and comes after every candidate with an entry; the list is then
\* cut to topn, so the candidate is returned when topn leaves room for it
\* once every candidate with an entry is in; with topn >= the number of
\* candidates none is dropped.
C24_AbsentLastThenCut ==
    mistralRun.st = "returned" =>
        /\ Len(mistralRun.ret) = Min(mistralIn.topn, Len(mistralRun.candidates))
        /\ \A j \in 1..Len(mistralRun.ret) : \E i \in 1..Len(mistralRun.candidates) :
              mistralRun.ret[j] = mistralRun.candidates[i]
        /\ \A j, l \in 1..Len(mistralRun.ret) :
              j # l => mistralRun.ret[j] # mistralRun.ret[l]
        /\ \A i \in 1..Len(mistralRun.candidates) :
              AbsentFromRanking(mistralRun.candidates[i]) =>
                  mistralRun.candidates[i].rerank_score = NegInf
        /\ \A j \in 1..Len(mistralRun.ret) :
              AbsentFromRanking(mistralRun.ret[j]) =>
                  \A i \in 1..Len(mistralRun.candidates) :
                      ~AbsentFromRanking(mistralRun.candidates[i]) =>
                          \E l \in 1..(j - 1) :
                              mistralRun.ret[l] = mistralRun.candidates[i]
        /\ mistralIn.topn >= Len(mistralRun.candidates) =>
              \A i \in 1..Len(mistralRun.candidates) :
                  InReturn(mistralRun.candidates[i])

\* the ranking names the second candidate only: the first one is returned
\* after it, with -infinity
C24_Witness ==
    /\ mistralRun.st = "returned"
    /\ ChunkIds(mistralIn.candidates) = <<"c1", "c2">>
    /\ mistralIn.topn = 2
    /\ EntryIds(mistralRun.ranking) = {"c2"}
    /\ ChunkIds(mistralRun.ret) = <<"c2", "c1">>
    /\ mistralRun.ret[2].rerank_score = NegInf

\* an entry of the ranking lacks "chunk_id" or "score"
EntryFieldMissing(ranking) ==
    \E p \in 1..Len(ranking) : ranking[p].kind \in {"nochunkid", "noscore"}

\* C25: rerank posts at most once, and an HTTP failure, malformed JSON, or a
\* missing field of the response (choices, message, content, ranking) or of a
\* ranking entry (chunk_id, score) each make it raise RerankProviderError.
C25_FailuresRaiseProviderError ==
    /\ mistralRun.requests <= 1
    /\ (\/ mistralRun.answer \in MistralRequestErrors
        \/ mistralRun.answer \in {"body_not_json", "content_not_json"}
        \/ mistralRun.answer \in {"no_choices", "no_message", "no_content", "no_ranking"}
        \/ (mistralRun.answer = "ranking" /\ EntryFieldMissing(mistralRun.ranking))) =>
           /\ mistralRun.st = "raised"
           /\ mistralRun.exc = "RerankProviderError"

\* ---------------------------------------------- claims on EmbeddingService
\* call p is done and returned, for each of its texts, a vector that the
\* provider produced for that text
ReturnsOwnTexts(p) ==
    IF embIn[p].op = "embed_text"
    THEN embCalls[p].ret.text = embIn[p].texts[1]
    ELSE /\ Len(embCalls[p].ret.embeddings) = Len(embIn[p].texts)
         /\ \A q \in 1..Len(embIn[p].texts) :
               embCalls[p].ret.embeddings[q].text = embIn[p].texts[q]

EveryCallReturnsOwnTexts ==
    \A p \in DOMAIN embIn : embCalls[p].pc = "done" => ReturnsOwnTexts(p)

\* C27: whatever the interleaving of the calls, no key of the cache is
\* assigned more than once, and every call returns vectors produced for its
\* own texts.
C27_WriteOncePerKey ==
    /\ \A k \in DOMAIN embWrites : embWrites[k] <= 1
    /\ EveryCallReturnsOwnTexts

====
